---- MODULE Spec2Model ----
(***************************************************************************)
(* Model of the operation rule engine of the bookkeeping application:      *)
(* OperationService.createOperation and the helpers it calls               *)
(* (client/src/pages/LoginPage.tsx, lines 283-448), the query facade       *)
(* getOperations and getOperationStats (lines 457-555), and the routes of  *)
(* server/routes.ts with authMiddleware, over the users and operations     *)
(* tables of shared/schema.ts.                                             *)
(*                                                                         *)
(* Strings are sequences of one-character strings, so that parsing,        *)
(* formatting and upper-casing are computed character by character.        *)
(* A JavaScript Number is a record                                         *)
(*     [kind, neg, digits, n]                                              *)
(* kind is "nan", "inf" or "fin"; for "fin" the value is                   *)
(*     (-1)^neg * 0.d1 d2 ... dk * 10^n                                    *)
(* with digits = <<d1, ..., dk>>, d1 # 0 and dk # 0 (zero has no digits).  *)
(* This is the (n, k, s) triple of ECMAScript's Number::toString; it is    *)
(* exact for decimal literals of at most 15 significant digits, which is   *)
(* what the bounded inputs below are.                                      *)
(***************************************************************************)
EXTENDS Integers, Sequences, FiniteSets, TLC

(***************************************************************************)
(* Characters                                                              *)
(***************************************************************************)
DigitChars == <<"0", "1", "2", "3", "4", "5", "6", "7", "8", "9">>

LowerLetters ==
  <<"a", "b", "c", "d", "e", "f", "g", "h", "i", "j", "k", "l", "m",
    "n", "o", "p", "q", "r", "s", "t", "u", "v", "w", "x", "y", "z">>

UpperLetters ==
  <<"A", "B", "C", "D", "E", "F", "G", "H", "I", "J", "K", "L", "M",
    "N", "O", "P", "Q", "R", "S", "T", "U", "V", "W", "X", "Y", "Z">>

IsDigitChar(c) == \E i \in 1..10 : DigitChars[i] = c

DigitOf(c) == (CHOOSE i \in 1..10 : DigitChars[i] = c) - 1

CharOf(d) == DigitChars[d + 1]

\* String.prototype.toUpperCase on one character.
UpperChar(c) ==
  IF \E i \in 1..26 : LowerLetters[i] = c
  THEN UpperLetters[CHOOSE i \in 1..26 : LowerLetters[i] = c]
  ELSE c

\* String.prototype.toUpperCase.
toUpperCase(s) == [i \in 1..Len(s) |-> UpperChar(s[i])]

Drop(s, k) == SubSeq(s, k + 1, Len(s))

Take(s, k) == SubSeq(s, 1, k)

\* Length of the longest prefix of s made of decimal digits.
RECURSIVE DigitRun(_)
DigitRun(s) ==
  IF s # <<>> /\ IsDigitChar(Head(s)) THEN 1 + DigitRun(Tail(s)) ELSE 0

\* Length of the longest prefix of s made of blanks.
RECURSIVE BlankRun(_)
BlankRun(s) ==
  IF s # <<>> /\ Head(s) = " " THEN 1 + BlankRun(Tail(s)) ELSE 0

Zeros(k) == [i \in 1..k |-> 0]

RECURSIVE StripLeadingZeros(_)
StripLeadingZeros(ds) ==
  IF ds # <<>> /\ Head(ds) = 0 THEN StripLeadingZeros(Tail(ds)) ELSE ds

RECURSIVE StripTrailingZeros(_)
StripTrailingZeros(ds) ==
  IF ds # <<>> /\ ds[Len(ds)] = 0
  THEN StripTrailingZeros(Take(ds, Len(ds) - 1))
  ELSE ds

\* The natural number written by a sequence of digits, saturating at Cap
\* (exponents only matter up to the range of a double).
RECURSIVE NatOfDigits(_, _, _)
NatOfDigits(ds, acc, Cap) ==
  IF ds = <<>> THEN acc
  ELSE LET next == acc * 10 + Head(ds)
       IN NatOfDigits(Tail(ds), IF next > Cap THEN Cap ELSE next, Cap)

\* The digits of a natural number (<<>> for 0).
RECURSIVE DigitsOfNat(_)
DigitsOfNat(k) ==
  IF k = 0 THEN <<>> ELSE Append(DigitsOfNat(k \div 10), k % 10)

(***************************************************************************)
(* Numbers                                                                 *)
(***************************************************************************)
NaN == [kind |-> "nan", neg |-> FALSE, digits |-> <<>>, n |-> 0]

Infinity(neg) == [kind |-> "inf", neg |-> neg, digits |-> <<>>, n |-> 0]

\* Largest and smallest decimal exponents n of a finite nonzero double
\* (1.797e308 is 0.1797e309, 4.9e-324 is 0.49e-323).
MaxDoubleExp == 309

MinDoubleExp == -323

\* The Number of sign * 0.ds * 10^n, for any digits ds: normalised, and
\* overflowing to Infinity / underflowing to 0 outside the range of a double.
MakeNumber(neg, ds, n) ==
  LET lead == Len(ds) - Len(StripLeadingZeros(ds))
      sig  == StripTrailingZeros(StripLeadingZeros(ds))
      nn   == n - lead
      over == \/ nn > MaxDoubleExp
              \/ nn = MaxDoubleExp /\ (sig[1] > 1 \/ (Len(sig) > 1 /\ sig[2] > 7))
  IN  IF sig = <<>> THEN [kind |-> "fin", neg |-> neg, digits |-> <<>>, n |-> 0]
      ELSE IF over THEN Infinity(neg)
      ELSE IF nn < MinDoubleExp
           THEN [kind |-> "fin", neg |-> neg, digits |-> <<>>, n |-> 0]
      ELSE [kind |-> "fin", neg |-> neg, digits |-> sig, n |-> nn]

NumberOfNat(k) == MakeNumber(FALSE, DigitsOfNat(k), Len(DigitsOfNat(k)))

IsZero(x) == x.kind = "fin" /\ x.digits = <<>>

\* isNaN(x)
isNaN(x) == x.kind = "nan"

\* a < b for positive finite numbers a and b.
RECURSIVE DigitsLess(_, _)
DigitsLess(a, b) ==
  IF b = <<>> THEN FALSE
  ELSE IF a = <<>> THEN TRUE
  ELSE IF Head(a) # Head(b) THEN Head(a) < Head(b)
  ELSE DigitsLess(Tail(a), Tail(b))

PosLess(a, b) == a.n < b.n \/ (a.n = b.n /\ DigitsLess(a.digits, b.digits))

\* x <= 0 (false for NaN, as every comparison with NaN).
LeqZero(x) ==
  CASE x.kind = "nan" -> FALSE
    [] x.kind = "inf" -> x.neg
    [] OTHER -> x.neg \/ x.digits = <<>>

\* x > k for a natural number k >= 1 (false for NaN).
GreaterThanNat(x, k) ==
  CASE x.kind = "nan" -> FALSE
    [] x.kind = "inf" -> ~x.neg
    [] OTHER -> ~x.neg /\ x.digits # <<>> /\ PosLess(NumberOfNat(k), x)

(***************************************************************************)
(* parseFloat, Number::toString, Number.prototype.toFixed                  *)
(***************************************************************************)
InfinityWord == <<"I", "n", "f", "i", "n", "i", "t", "y">>

StartsWith(s, w) == Len(s) >= Len(w) /\ Take(s, Len(w)) = w

\* The exponent part at the head of s: [len, val], len = 0 when s does not
\* start with a complete ExponentPart (e or E, an optional sign, digits).
ExponentPart(s) ==
  IF s = <<>> \/ Head(s) \notin {"e", "E"} THEN [len |-> 0, val |-> 0]
  ELSE LET r      == Tail(s)
           signed == r # <<>> /\ Head(r) \in {"+", "-"}
           ds     == IF signed THEN Tail(r) ELSE r
           k      == DigitRun(ds)
           mag    == NatOfDigits([j \in 1..k |-> DigitOf(ds[j])], 0, 1000)
       IN IF k = 0 THEN [len |-> 0, val |-> 0]
          ELSE [len |-> 1 + (IF signed THEN 1 ELSE 0) + k,
                val |-> IF signed /\ Head(r) = "-" THEN 0 - mag ELSE mag]

\* parseFloat(string): leading blanks are skipped, then the longest prefix
\* that is a StrDecimalLiteral is converted; whatever follows is ignored.
\* NaN when there is no such prefix.
parseFloat(s) ==
  LET t      == Drop(s, BlankRun(s))
      signed == t # <<>> /\ Head(t) \in {"+", "-"}
      neg    == signed /\ Head(t) = "-"
      u      == IF signed THEN Tail(t) ELSE t
      i      == DigitRun(u)
      dotted == Len(u) > i /\ u[i + 1] = "."
      f      == IF dotted THEN DigitRun(Drop(u, i + 1)) ELSE 0
      \* "5." consumes the point, "." followed by no digit is no literal
      mlen   == IF dotted /\ (i > 0 \/ f > 0) THEN i + 1 + f ELSE i
      ex     == ExponentPart(Drop(u, mlen))
      ints   == [j \in 1..i |-> DigitOf(u[j])]
      fracs  == [j \in 1..f |-> DigitOf(u[i + 1 + j])]
  IN  IF StartsWith(u, InfinityWord) THEN Infinity(neg)
      ELSE IF i = 0 /\ f = 0 THEN NaN
      ELSE MakeNumber(neg, ints \o fracs, i + ex.val)

DigitString(ds) == [j \in 1..Len(ds) |-> CharOf(ds[j])]

\* Number::toString(x), radix 10 (ECMAScript 6.1.6.1.20): with k digits and
\* decimal exponent n, plain decimal notation for -6 < n <= 21 and
\* exponential notation otherwise.
NumberToString(x) ==
  IF x.kind = "nan" THEN <<"N", "a", "N">>
  ELSE IF x.kind = "inf"
       THEN (IF x.neg THEN <<"-">> ELSE <<>>) \o InfinityWord
  ELSE IF x.digits = <<>> THEN <<"0">>
  ELSE
    LET k    == Len(x.digits)
        n    == x.n
        sign == IF x.neg THEN <<"-">> ELSE <<>>
        ds   == DigitString(x.digits)
        e    == n - 1
        exp  == <<"e">> \o (IF e < 0 THEN <<"-">> ELSE <<"+">>)
                  \o DigitString(DigitsOfNat(IF e < 0 THEN 0 - e ELSE e))
    IN  sign \o
        (IF k <= n /\ n <= 21 THEN ds \o DigitString(Zeros(n - k))
         ELSE IF 0 < n /\ n <= 21 THEN Take(ds, n) \o <<".">> \o Drop(ds, n)
         ELSE IF -6 < n /\ n <= 0
              THEN <<"0", ".">> \o DigitString(Zeros(0 - n)) \o ds
         ELSE IF k = 1 THEN ds \o exp
         ELSE <<ds[1], ".">> \o Drop(ds, 1) \o exp)

\* ds + 1 on a sequence of digits.
RECURSIVE Increment(_)
Increment(ds) ==
  IF ds = <<>> THEN <<1>>
  ELSE IF ds[Len(ds)] < 9
       THEN Take(ds, Len(ds) - 1) \o <<ds[Len(ds)] + 1>>
  ELSE Increment(Take(ds, Len(ds) - 1)) \o <<0>>

\* The digits of x * 10^f split at the decimal point: [int, frac].
Scaled(x, f) ==
  LET p == x.n + f
      k == Len(x.digits)
  IN  IF p <= 0 THEN [int |-> <<>>, frac |-> Zeros(0 - p) \o x.digits]
      ELSE IF p >= k THEN [int |-> x.digits \o Zeros(p - k), frac |-> <<>>]
      ELSE [int |-> Take(x.digits, p), frac |-> Drop(x.digits, p)]

\* The text of an integer number of 10^-f units, with f decimals.
FixedText(neg, units, f) ==
  LET ds  == StripLeadingZeros(units)
      pad == IF Len(ds) > f THEN ds ELSE Zeros(f + 1 - Len(ds)) \o ds
      ip  == Take(pad, Len(pad) - f)
      fp  == Drop(pad, Len(pad) - f)
  IN  (IF neg /\ ds # <<>> THEN <<"-">> ELSE <<>>)
        \o DigitString(ip)
        \o (IF f > 0 THEN <<".">> \o DigitString(fp) ELSE <<>>)

\* Number.prototype.toFixed(f) (ECMAScript 21.1.3.3): the integer nearest to
\* x * 10^f, the larger one on a tie, written with f decimals.  The tie is
\* decided on the double: a decimal literal that lies exactly half way is
\* stored as a double slightly below or above it (1.005 is stored below,
\* 0.005 above), so at a decimal tie both roundings are outcomes.
toFixed(x, f) ==
  IF x.kind # "fin" THEN {NumberToString(x)}
  ELSE IF x.n > 21 THEN {NumberToString(x)}
  ELSE
    LET sc   == Scaled(x, f)
        down == sc.int
        up   == Increment(sc.int)
        fr   == sc.frac
        tie  == fr # <<>> /\ fr[1] = 5 /\ StripTrailingZeros(Drop(fr, 1)) = <<>>
        more == fr # <<>> /\ fr[1] >= 5 /\ ~tie
    IN  IF tie THEN {FixedText(x.neg, down, f), FixedText(x.neg, up, f)}
        ELSE IF more THEN {FixedText(x.neg, up, f)}
        ELSE {FixedText(x.neg, down, f)}

\* RegExp /^\d+(\.\d{1,maxDecimals})?$/ .test(s)
PrecisionRegexTest(s, maxDecimals) ==
  LET i    == DigitRun(s)
      rest == Drop(s, i)
  IN  /\ i >= 1
      /\ \/ rest = <<>>
         \/ /\ Head(rest) = "."
            /\ DigitRun(Tail(rest)) = Len(rest) - 1
            /\ Len(rest) - 1 >= 1
            /\ Len(rest) - 1 <= maxDecimals

(***************************************************************************)
(* OperationService: validation and normalisation                          *)
(***************************************************************************)
USD == <<"U", "S", "D">>
EUR == <<"E", "U", "R">>
GBP == <<"G", "B", "P">>
JPY == <<"J", "P", "Y">>
CAD == <<"C", "A", "D">>
AUD == <<"A", "U", "D">>
CHF == <<"C", "H", "F">>
CNY == <<"C", "N", "Y">>
BTC == <<"B", "T", "C">>
ETH == <<"E", "T", "H">>
ADA == <<"A", "D", "A">>
SOL == <<"S", "O", "L">>
BUY == <<"B", "U", "Y">>
SELL == <<"S", "E", "L", "L">>

cryptoCurrencies == {BTC, ETH, ADA, SOL}

validCurrencies == {USD, EUR, GBP, JPY, CAD, AUD, CHF, CNY, BTC, ETH, ADA, SOL}

operationTypes == {BUY, SELL}

CryptoDecimals == 8

FiatDecimals == 2

StoredDecimals == 2

DailyOperationLimit == 10

MaxSingleAmount == 10000

\* The outcome of a check or of a call: kind is "ok" or the error's class,
\* reason names the check that threw.
Ok == [kind |-> "ok", reason |-> "none"]

Error(kind, reason) == [kind |-> kind, reason |-> reason]

isValidCurrencyPrecision(amount, currency) ==
  IF toUpperCase(currency) \in cryptoCurrencies
  THEN PrecisionRegexTest(NumberToString(amount), CryptoDecimals)
  ELSE PrecisionRegexTest(NumberToString(amount), FiatDecimals)

\* isValidCurrency with a thirteenth code on the list.
isValidCurrencyWithTether(currency) ==
  toUpperCase(currency) \in validCurrencies \cup {<<"U", "S", "D", "T">>}

isValidCurrency(currency) == toUpperCase(currency) \in validCurrencies

\* count() of the operations rows selected by eq(operations.userId, userId).
CountByUser(rows, userId) ==
  Cardinality({i \in DOMAIN rows : rows[i].userId = userId})

\* Midnight of the day of time t (today.setHours(0, 0, 0, 0)).
TicksPerDay == 2

StartOfDay(t) == t - (t % TicksPerDay)

\* validateDailyLimits counting only the rows created today.
validateDailyLimitsToday(userId, amount, rows, time) ==
  LET today      == StartOfDay(time)
      dailyTotal == Cardinality({i \in DOMAIN rows :
                      rows[i].userId = userId /\ rows[i].createdAt >= today})
  IN  IF dailyTotal >= DailyOperationLimit
      THEN Error("BusinessRuleError", "dailyCount")
      ELSE IF GreaterThanNat(amount, MaxSingleAmount)
      THEN Error("BusinessRuleError", "amountLimit")
      ELSE Ok

\* validateDailyLimits refusing only above the limit (> for >=).
validateDailyLimitsOffByOne(userId, amount, rows, time) ==
  LET dailyTotal == CountByUser(rows, userId)
  IN  IF dailyTotal > DailyOperationLimit
      THEN Error("BusinessRuleError", "dailyCount")
      ELSE IF GreaterThanNat(amount, MaxSingleAmount)
      THEN Error("BusinessRuleError", "amountLimit")
      ELSE Ok

\* validateDailyLimits refusing 10,000 itself (>= for >).
validateDailyLimitsInclusiveCap(userId, amount, rows, time) ==
  LET dailyTotal == CountByUser(rows, userId)
  IN  IF dailyTotal >= DailyOperationLimit
      THEN Error("BusinessRuleError", "dailyCount")
      ELSE IF ~PosLess(amount, NumberOfNat(MaxSingleAmount))
      THEN Error("BusinessRuleError", "amountLimit")
      ELSE Ok

\* rows is the operations table as the transaction's count query sees it.
\* today is computed and, as in the source, not used in the query.
validateDailyLimits(userId, amount, rows, time) ==
  LET today      == StartOfDay(time)
      dailyTotal == CountByUser(rows, userId)
  IN  IF dailyTotal >= DailyOperationLimit
      THEN Error("BusinessRuleError", "dailyCount")
      ELSE IF GreaterThanNat(amount, MaxSingleAmount)
      THEN Error("BusinessRuleError", "amountLimit")
      ELSE Ok

\* The structural checks without the check of the type.
StructuralChecksAnyType(data) ==
  LET amount == parseFloat(data.amount)
  IN  IF isNaN(amount) \/ LeqZero(amount)
      THEN Error("ValidationError", "amount")
      ELSE IF ~isValidCurrencyPrecision(amount, data.currency)
      THEN Error("ValidationError", "precision")
      ELSE IF ~isValidCurrency(data.currency)
      THEN Error("ValidationError", "currency")
      ELSE Ok

\* The checks of validateOperationData that precede the count query.
StructuralChecks(data) ==
  LET amount == parseFloat(data.amount)
  IN  IF isNaN(amount) \/ LeqZero(amount)
      THEN Error("ValidationError", "amount")
      ELSE IF ~isValidCurrencyPrecision(amount, data.currency)
      THEN Error("ValidationError", "precision")
      ELSE IF ~isValidCurrency(data.currency)
      THEN Error("ValidationError", "currency")
      ELSE IF data.type \notin operationTypes
      THEN Error("ValidationError", "type")
      ELSE Ok

\* validateOperationData without the limits.
validateOperationDataStructuralOnly(data, rows, time) ==
  StructuralChecks(data)

validateOperationData(data, rows, time) ==
  IF StructuralChecks(data).kind # "ok" THEN StructuralChecks(data)
  ELSE validateDailyLimits(data.userId, parseFloat(data.amount), rows, time)

\* processOperationData storing the currency as given.
processOperationDataAsGiven(data) ==
  { [type     |-> data.type,
     amount   |-> a,
     currency |-> data.currency,
     userId   |-> data.userId] : a \in toFixed(parseFloat(data.amount), StoredDecimals) }

\* The rows processOperationData can return (one, or two where toFixed has
\* two outcomes).
processOperationData(data) ==
  { [type     |-> data.type,
     amount   |-> a,
     currency |-> toUpperCase(data.currency),
     userId   |-> data.userId] : a \in toFixed(parseFloat(data.amount), StoredDecimals) }

(***************************************************************************)
(* Number(string) and parseInt(string, 10), the conversions of the routes  *)
(***************************************************************************)
\* Length of the longest suffix of s made of blanks.
RECURSIVE TrailingBlankRun(_)
TrailingBlankRun(s) ==
  IF s # <<>> /\ s[Len(s)] = " "
  THEN 1 + TrailingBlankRun(Take(s, Len(s) - 1))
  ELSE 0

Trim(s) ==
  LET t == Drop(s, BlankRun(s)) IN Take(t, Len(t) - TrailingBlankRun(t))

\* The radix a 0x, 0o or 0b prefix announces, 0 when there is none.
RadixOf(t) ==
  IF Len(t) < 2 \/ t[1] # "0" THEN 0
  ELSE IF t[2] \in {"x", "X"} THEN 16
  ELSE IF t[2] \in {"o", "O"} THEN 8
  ELSE IF t[2] \in {"b", "B"} THEN 2
  ELSE 0

\* The value of a character as a digit (36 when it is none).
RadixDigit(c) ==
  IF IsDigitChar(c) THEN DigitOf(c)
  ELSE IF \E i \in 1..26 : UpperLetters[i] = UpperChar(c)
       THEN 9 + (CHOOSE i \in 1..26 : UpperLetters[i] = UpperChar(c))
  ELSE 36

\* The natural number written by cs in the radix, saturating at Cap.
RECURSIVE RadixValue(_, _, _, _)
RadixValue(cs, radix, acc, Cap) ==
  IF cs = <<>> THEN acc
  ELSE LET next == acc * radix + RadixDigit(Head(cs))
       IN RadixValue(Tail(cs), radix, IF next > Cap THEN Cap ELSE next, Cap)

\* Number(string) (ECMAScript StringToNumber): blanks are trimmed on both
\* sides; the empty string is 0; the whole of what remains must be a
\* numeric literal (decimal with optional sign and exponent, Infinity, or
\* an unsigned 0x, 0o, 0b literal), otherwise NaN.  A radix literal above
\* 10^9 is taken as 10^9.
StringToNumber(s) ==
  LET t      == Trim(s)
      radix  == RadixOf(t)
      body   == Drop(t, 2)
      signed == t # <<>> /\ Head(t) \in {"+", "-"}
      neg    == signed /\ Head(t) = "-"
      u      == IF signed THEN Tail(t) ELSE t
      i      == DigitRun(u)
      dotted == Len(u) > i /\ u[i + 1] = "."
      f      == IF dotted THEN DigitRun(Drop(u, i + 1)) ELSE 0
      mlen   == IF dotted /\ (i > 0 \/ f > 0) THEN i + 1 + f ELSE i
      ex     == ExponentPart(Drop(u, mlen))
  IN  IF t = <<>> THEN MakeNumber(FALSE, <<>>, 0)
      ELSE IF radix # 0
           THEN IF body # <<>> /\ \A k \in 1..Len(body) : RadixDigit(body[k]) < radix
                THEN NumberOfNat(RadixValue(body, radix, 0, 1000000000))
                ELSE NaN
      ELSE IF u = InfinityWord THEN Infinity(neg)
      ELSE IF (i = 0 /\ f = 0) \/ mlen + ex.len # Len(u) THEN NaN
      ELSE parseFloat(t)

\* parseInt(string, 10): leading blanks and a sign are skipped and the run
\* of digits that follows is the value, whatever comes after it; NaN when
\* there is no digit.  [nan, value], values above 10^4 taken as 10^4.
parseInt(s) ==
  LET t      == Drop(s, BlankRun(s))
      signed == t # <<>> /\ Head(t) \in {"+", "-"}
      u      == IF signed THEN Tail(t) ELSE t
      i      == DigitRun(u)
      mag    == NatOfDigits([j \in 1..i |-> DigitOf(u[j])], 0, 10000)
  IN  IF i = 0 THEN [nan |-> TRUE, value |-> 0]
      ELSE [nan |-> FALSE,
            value |-> IF signed /\ Head(t) = "-" THEN 0 - mag ELSE mag]

(***************************************************************************)
(* The query facade: OperationService.getOperations and getOperationStats  *)
(* as functions of their parameters and of the rows of the operations      *)
(* table.  An absent (undefined) or empty parameter is <<>> (both are      *)
(* falsy), an absent userId is "".                                         *)
(***************************************************************************)
AllTypes ==
  <<"a", "l", "l", "-", "t", "y", "p", "e", "s">>

AllCurrencies ==
  <<"a", "l", "l", "-", "c", "u", "r", "r", "e", "n", "c", "i", "e", "s">>

\* text LIKE pattern of PostgreSQL: % matches any run of characters, _ any
\* one character, and a backslash takes the next character literally.
RECURSIVE LikeMatch(_, _)
LikeMatch(pattern, text) ==
  IF pattern = <<>> THEN text = <<>>
  ELSE IF Head(pattern) = "%"
       THEN \/ LikeMatch(Tail(pattern), text)
            \/ text # <<>> /\ LikeMatch(pattern, Tail(text))
  ELSE IF Head(pattern) = "_"
       THEN text # <<>> /\ LikeMatch(Tail(pattern), Tail(text))
  ELSE IF Head(pattern) = "\\"
       THEN /\ Len(pattern) >= 2
            /\ text # <<>>
            /\ pattern[2] = Head(text)
            /\ LikeMatch(Drop(pattern, 2), Tail(text))
  ELSE /\ text # <<>>
       /\ Head(pattern) = Head(text)
       /\ LikeMatch(Tail(pattern), Tail(text))

\* ilike(column, pattern): LIKE without regard to the case of letters.
ilike(text, pattern) == LikeMatch(toUpperCase(pattern), toUpperCase(text))

\* `%${search}%`
SearchPattern(search) == <<"%">> \o search \o <<"%">>

\* The where clause without the condition on the user.
WhereClauseAnyUser(params, row) ==
  /\ (params.type # <<>> /\ params.type # AllTypes)
       => row.type = params.type
  /\ (params.currency # <<>> /\ params.currency # AllCurrencies)
       => row.currency = params.currency
  /\ params.search # <<>>
       => \/ ilike(row.currency, SearchPattern(params.search))
          \/ ilike(row.type, SearchPattern(params.search))
          \/ ilike(row.amount, SearchPattern(params.search))

\* The where clause of getOperations on one row.
WhereClause(params, row) ==
  /\ params.userId # "" => row.userId = params.userId
  /\ (params.type # <<>> /\ params.type # AllTypes)
       => row.type = params.type
  /\ (params.currency # <<>> /\ params.currency # AllCurrencies)
       => row.currency = params.currency
  /\ params.search # <<>>
       => \/ ilike(row.currency, SearchPattern(params.search))
          \/ ilike(row.type, SearchPattern(params.search))
          \/ ilike(row.amount, SearchPattern(params.search))

\* ORDER BY created_at ASC: the oldest first.
RECURSIVE OrderByCreatedAtAsc(_, _)
OrderByCreatedAtAsc(rows, S) ==
  IF S = {} THEN {<<>>}
  ELSE LET oldest ==
             {i \in S : \A j \in S : rows[i].createdAt <= rows[j].createdAt}
       IN  UNION { { <<rows[i]>> \o rest :
                       rest \in OrderByCreatedAtAsc(rows, S \ {i}) } :
                   i \in oldest }

\* ORDER BY created_at DESC over the rows at the positions of S: every
\* sequence of S in which created_at never increases.  Rows of equal
\* created_at have no order of their own: the query names no second key,
\* and the store may return them in any order, a different one each time.
RECURSIVE OrderByCreatedAtDesc(_, _)
OrderByCreatedAtDesc(rows, S) ==
  IF S = {} THEN {<<>>}
  ELSE LET newest ==
             {i \in S : \A j \in S : rows[j].createdAt <= rows[i].createdAt}
       IN  UNION { { <<rows[i]>> \o rest :
                       rest \in OrderByCreatedAtDesc(rows, S \ {i}) } :
                   i \in newest }

\* LIMIT limit OFFSET offset
LimitOffset(seq, limit, offset) ==
  SubSeq(seq, offset + 1,
         IF offset + limit < Len(seq) THEN offset + limit ELSE Len(seq))

\* The store refusing the query.
QueryFailed == [error |-> TRUE, operations |-> <<>>, total |-> 0]

\* The count query without its where clause.
CountQueryAllRows(params, rows) == Len(rows)

\* The count query of getOperations: the number of rows that satisfy the
\* where clause.
CountQuery(params, rows) ==
  Cardinality({i \in DOMAIN rows : WhereClause(params, rows[i])})

\* The page query of getOperations: the pages it can return, one for each
\* order of the rows that satisfy the where clause.
PageQuery(params, rows) ==
  { LimitOffset(ordered, params.limit, (params.page - 1) * params.limit) :
      ordered \in OrderByCreatedAtDesc(rows,
                    {i \in DOMAIN rows : WhereClause(params, rows[i])}) }

\* The results getOperations can return when both queries read the same
\* rows: a page of the page query and the count of the count query.  With a
\* search term the query applies ILIKE, an operator on text, to amount, a
\* decimal column, without a cast: a store that has no such operator
\* refuses the query, and the promise is rejected.
getOperations(params, rows) ==
  { [error      |-> FALSE,
     operations |-> page,
     total      |-> CountQuery(params, rows)] : page \in PageQuery(params, rows) }
  \cup (IF params.search # <<>> THEN {QueryFailed} ELSE {})

\* getOperationStats(userId): three counts.
getOperationStats(userId, rows) ==
  LET mine == {i \in DOMAIN rows : userId # "" => rows[i].userId = userId}
  IN  [total |-> Cardinality(mine),
       buys  |-> Cardinality({i \in mine : rows[i].type = BUY}),
       sells |-> Cardinality({i \in mine : rows[i].type = SELL})]

(***************************************************************************)
(* State                                                                   *)
(*                                                                         *)
(* users, operations: the committed rows of the two tables, operations in  *)
(* commit order.  now: the server clock.  calls[p]: the createOperation    *)
(* call of request handler p, a record                                     *)
(*   pc      where the call stands: "idle", "begun" (transaction open),    *)
(*           "validated", "userChecked", "inserted", "done"                *)
(*   data    the CreateOperationInput                                      *)
(*   fault   the statement at which the store fails during this call       *)
(*   txStart the time the transaction began (Postgres now())               *)
(*   txRows  the rows the transaction has inserted and not yet committed;  *)
(*           they are visible to no other connection                       *)
(*   result  the outcome thrown or returned to the caller                  *)
(*   row     the row returned to the caller on success                     *)
(*   usersBefore, opsBefore  the tables when the call began (history)      *)
(* tokens: the tokens login has signed so far.  client: the token the      *)
(* browser keeps in localStorage.  exchanges: the latest request of the    *)
(* current instant with its response, preceded by the pages of the same    *)
(* list fetched just before it, newest first (history).  setups[p]: the    *)
(* POST /api/setup/admin request of handler p when its statements are      *)
(* interleaved with those of the other handler: pc is "idle", "checked"    *)
(* (no user of the e-mail was found; the insert is still to come) or       *)
(* "done", with the body of the request and the response.                  *)
(***************************************************************************)
VARIABLES users, operations, now, calls, tokens, client, exchanges, setups

vars == <<users, operations, now, calls, tokens, client, exchanges, setups>>

\* What the steps of a createOperation call leave alone.
web == <<tokens, client, exchanges, setups>>

Procs == {"p1", "p2"}

\* The store fails at no statement, or at one: opening the transaction,
\* the count query, the user query, the insert, the commit.
Faults == {"none", "begin", "count", "select", "insert", "commit"}

NoData == [type |-> <<>>, amount |-> <<>>, currency |-> <<>>, userId |-> "none"]

NoRow == [id |-> 0, type |-> <<>>, amount |-> <<>>, currency |-> <<>>,
          userId |-> "none", createdAt |-> 0]

IdleCall ==
  [pc |-> "idle", data |-> NoData, fault |-> "none", txStart |-> 0,
   txRows |-> <<>>, result |-> Ok, row |-> NoRow,
   usersBefore |-> {}, opsBefore |-> <<>>]

IdleSetup ==
  [pc |-> "idle", email |-> "", password |-> "",
   response |-> [status |-> 0, body |-> [message |-> "pending"]]]

\* The operations table as a statement of transaction p sees it: the
\* committed rows and the transaction's own uncommitted ones.
TxView(p) == operations \o calls[p].txRows

\* The rows a commit of transaction p adds to the table.  The id (a
\* random uuid in the source) is the row's position in commit order.
Committed(p) ==
  [i \in 1..Len(calls[p].txRows) |->
     [calls[p].txRows[i] EXCEPT !.id = Len(operations) + i]]

\* The table after COMMIT of transaction p.
AfterCommit(p) == operations \o Committed(p)

\* A rollback that leaves the transaction's rows in the table.
AfterRollbackKeepsRows(p) == operations \o Committed(p)

\* The table after ROLLBACK of transaction p: its rows are dropped.
AfterRollback(p) == operations

\* A throw inside the transaction callback: the catch block rethrows the
\* domain errors and wraps the others, and db.transaction rolls back
\* before it rethrows to the caller.
Fail(p, result) ==
  /\ calls' = [calls EXCEPT ![p] =
       [calls[p] EXCEPT !.pc = "done", !.txRows = <<>>, !.result = result]]
  /\ operations' = AfterRollback(p)

\* The callback goes on to its next statement.
Proceed(p, pc) ==
  /\ calls' = [calls EXCEPT ![p] = [calls[p] EXCEPT !.pc = pc]]
  /\ UNCHANGED operations

\* A CreateOperationInput.
Request(type, amount, currency, userId) ==
  [type |-> type, amount |-> amount, currency |-> currency, userId |-> userId]

\* db.transaction(...): a connection is taken from the pool and BEGIN is
\* sent.  A failure here is thrown by db.transaction itself, outside the
\* callback's try/catch, and there is no transaction to roll back.
\* Started is the call as it stands after that.
Started(p, data, fault) ==
  LET call == [IdleCall EXCEPT !.data = data, !.fault = fault,
                               !.txStart = now,
                               !.usersBefore = users,
                               !.opsBefore = operations]
  IN  IF fault = "begin"
      THEN [call EXCEPT !.pc = "done",
                        !.result = Error("StoreError", "begin")]
      ELSE [call EXCEPT !.pc = "begun"]

Begin(p, data, fault) ==
  /\ calls[p].pc \in {"idle", "done"}
  /\ calls' = [calls EXCEPT ![p] = Started(p, data, fault)]
  /\ UNCHANGED <<users, operations, now, web>>

\* 1. validateOperationData: the structural checks, the count query, the
\* two limits.
Validate(p) ==
  /\ calls[p].pc = "begun"
  /\ LET data == calls[p].data
     IN  IF StructuralChecks(data).kind # "ok"
         THEN Fail(p, StructuralChecks(data))
         ELSE IF calls[p].fault = "count"
         THEN Fail(p, Error("TransactionError", "count"))
         ELSE IF validateOperationData(data, TxView(p), now).kind # "ok"
         THEN Fail(p, validateOperationData(data, TxView(p), now))
         ELSE Proceed(p, "validated")
  /\ UNCHANGED <<users, now, web>>

\* The user query with its result not looked at.
SelectUserUnchecked(p) ==
  /\ calls[p].pc = "validated"
  /\ IF calls[p].fault = "select"
     THEN Fail(p, Error("TransactionError", "select"))
     ELSE Proceed(p, "userChecked")
  /\ UNCHANGED <<users, now, web>>

\* 2. the user query and its check.
SelectUser(p) ==
  /\ calls[p].pc = "validated"
  /\ LET user == {u \in users : u.id = calls[p].data.userId}
     IN  IF calls[p].fault = "select"
         THEN Fail(p, Error("TransactionError", "select"))
         ELSE IF user = {}
         THEN Fail(p, Error("BusinessRuleError", "userNotFound"))
         ELSE Proceed(p, "userChecked")
  /\ UNCHANGED <<users, now, web>>

\* The row the insert writes inside transaction p: the processed values,
\* created_at defaulting to the transaction's now().
NewRow(p, values) ==
  [id        |-> 0,
   type      |-> values.type,
   amount    |-> values.amount,
   currency  |-> values.currency,
   userId    |-> values.userId,
   createdAt |-> calls[p].txStart]

\* 3. processOperationData and 4. the insert, inside the transaction.
Insert(p) ==
  /\ calls[p].pc = "userChecked"
  /\ IF calls[p].fault = "insert"
     THEN Fail(p, Error("TransactionError", "insert"))
     ELSE /\ \E values \in processOperationData(calls[p].data) :
               calls' = [calls EXCEPT ![p] =
                 [calls[p] EXCEPT !.pc = "inserted",
                                  !.txRows = <<NewRow(p, values)>>]]
          /\ UNCHANGED operations
  /\ UNCHANGED <<users, now, web>>

\* The callback returned: COMMIT.  A failure of the commit is thrown by
\* db.transaction itself, and the transaction is rolled back.
Commit(p) ==
  /\ calls[p].pc = "inserted"
  /\ IF calls[p].fault = "commit"
     THEN Fail(p, Error("StoreError", "commit"))
     ELSE /\ operations' = AfterCommit(p)
          /\ calls' = [calls EXCEPT ![p] =
               [calls[p] EXCEPT !.pc = "done", !.txRows = <<>>,
                                !.result = Ok, !.row = Committed(p)[1]]]
  /\ UNCHANGED <<users, now, web>>

\* One step of the createOperation call of handler p.
Step(p) == Validate(p) \/ SelectUser(p) \/ Insert(p) \/ Commit(p)

(***************************************************************************)
(* Tokens (jsonwebtoken, taken as a library): a token is the payload, the  *)
(* key that signed it, and whether the string is a token at all.           *)
(***************************************************************************)
JWT_SECRET == "JWT_SECRET"

\* jwt.sign(payload, secret)
sign(payload, secret) ==
  [payload |-> payload, key |-> secret, wellFormed |-> TRUE]

\* A string that is not a token.
Garbage ==
  [payload |-> [sub |-> "", role |-> "", exp |-> 0], key |-> "",
   wellFormed |-> FALSE]

\* jwt.verify whose expiry test lets the instant of expiry through.
verifyThroughExpiry(token, secret, time) ==
  /\ token.wellFormed
  /\ token.key = secret
  /\ time <= token.payload.exp

\* jwt.verify(token, secret) at a time: it returns the payload when the
\* string is a token, the signature is the one of the secret and the time
\* is before exp, and throws otherwise.
verify(token, secret, time) ==
  /\ token.wellFormed
  /\ token.key = secret
  /\ time < token.payload.exp

(***************************************************************************)
(* Requests and responses                                                  *)
(***************************************************************************)
\* The Authorization header: scheme and token; no header is scheme "".
Header(scheme, token) == [scheme |-> scheme, token |-> token]

NoHeader == Header("", Garbage)

Response(status, body) == [status |-> status, body |-> body]

Message(status, message) == Response(status, [message |-> message])

\* The response of a call still running (it is sent when the call is
\* done, see CreateResponse).
Pending == Message(0, "pending")

\* The public summary of a user.
Summary(user) == [id |-> user.id, email |-> user.email, role |-> user.role]

\* How many exchanges are remembered when a client pages through a list.
LogLength == 2

\* An exchange: the request, the time and the number of stored operations
\* when it was answered, the response, and whether the route's handler
\* ran.
Exchange(route, header, request, response, ran) ==
  [route   |-> route,
   header  |-> header,
   request |-> request,
   time    |-> now,
   stored  |-> Len(operations),
   status  |-> response.status,
   body    |-> response.body,
   ran     |-> ran]

\* A list exchange that continues the paging of the one before it: the
\* same request but for the page.
SamePaging(e, d) ==
  /\ e.route \in {"list", "getOperations"}
  /\ d.route = e.route
  /\ e.status = 200 /\ d.status = 200
  /\ e.header = d.header
  /\ [e.request EXCEPT !.page = <<>>] = [d.request EXCEPT !.page = <<>>]

\* The exchange is recorded, after the pages of the same list fetched just
\* before it, otherwise alone.
Log(e) ==
  exchanges' =
    IF exchanges # <<>> /\ SamePaging(e, exchanges[1])
    THEN <<e>> \o (IF Len(exchanges) < LogLength THEN exchanges
                   ELSE Take(exchanges, LogLength - 1))
    ELSE <<e>>

(***************************************************************************)
(* authMiddleware                                                          *)
(***************************************************************************)
getUser(id) == {u \in users : u.id = id}

\* authMiddleware without the lookup of the user.
authMiddlewareTrustingToken(header, time) ==
  IF header.scheme # "Bearer" THEN Message(401, "No token provided")
  ELSE IF ~verify(header.token, JWT_SECRET, time)
       THEN Message(401, "Invalid token")
  ELSE Response(200, [id |-> header.token.payload.sub, email |-> "",
                      role |-> header.token.payload.role])

\* The 401 response, or status 200 with the user handed to the handler.
authMiddleware(header, time) ==
  IF header.scheme # "Bearer" THEN Message(401, "No token provided")
  ELSE IF ~verify(header.token, JWT_SECRET, time)
       THEN Message(401, "Invalid token")
  ELSE IF getUser(header.token.payload.sub) = {}
       THEN Message(401, "User not found")
  ELSE Response(200, Summary(CHOOSE u \in getUser(header.token.payload.sub) : TRUE))

(***************************************************************************)
(* POST /api/setup/admin, run as one step: the user is created unless      *)
(* the e-mail or the password is missing or the e-mail is already stored.  *)
(***************************************************************************)
UserIdPool == <<"u1", "u2", "u3">>

\* bcrypt.hash(password, 12), as an opaque value.
Hash(password) == <<"bcrypt", password>>

\* bcrypt.compare(password, hash)
compare(password, hash) == hash = Hash(password)

getUserByEmail(email) == {u \in users : u.email = email}

\* The row createUser inserts.
InsertedUser(insertUser) ==
  [id       |-> UserIdPool[Cardinality(users) + 1],
   email    |-> insertUser.email,
   password |-> insertUser.password,
   role     |-> insertUser.role]

\* createUser that replaces the stored users.
createUserReplacing(insertUser) ==
  users' = {InsertedUser(insertUser)}

createUser(insertUser) ==
  users' = users \cup {InsertedUser(insertUser)}

\* The response of GET /api/setup/status (without the environment).
SetupStatus ==
  [needsSetup |-> Cardinality(users) = 0, userCount |-> Cardinality(users)]

\* The response of the setup handler.
SetupResponse(email, password) ==
  IF email = "" \/ password = ""
  THEN Message(400, "Email and password are required")
  ELSE IF getUserByEmail(email) # {}
  THEN Message(400, "User with this email already exists")
  ELSE Response(201,
         [message |-> "Admin user created successfully",
          user    |-> Summary(InsertedUser(
                        [email |-> email, password |-> Hash(password),
                         role |-> "admin"]))])

\* The handler, its exchange not recorded.
SetupAdmin(email, password) ==
  /\ IF email = "" \/ password = "" THEN UNCHANGED users
     ELSE IF getUserByEmail(email) # {} THEN UNCHANGED users
     ELSE createUser([email |-> email, password |-> Hash(password),
                      role |-> "admin"])
  /\ UNCHANGED <<operations, now, calls, web>>

\* The handler, its exchange recorded.
PostSetupAdmin(email, password) ==
  /\ IF email = "" \/ password = "" THEN UNCHANGED users
     ELSE IF getUserByEmail(email) # {} THEN UNCHANGED users
     ELSE createUser([email |-> email, password |-> Hash(password),
                      role |-> "admin"])
  /\ Log(Exchange("setup", NoHeader,
                  [email |-> email, password |-> password],
                  SetupResponse(email, password), TRUE))
  /\ UNCHANGED <<operations, now, calls, tokens, client, setups>>

\* The handler of handler p up to the insert: the two fields are
\* required, and getUserByEmail is awaited.
SetupBegin(p, email, password) ==
  /\ setups[p].pc \in {"idle", "done"}
  /\ setups' = [setups EXCEPT ![p] =
       IF email = "" \/ password = "" \/ getUserByEmail(email) # {}
       THEN [pc |-> "done", email |-> email, password |-> password,
             response |-> SetupResponse(email, password)]
       ELSE [pc |-> "checked", email |-> email, password |-> password,
             response |-> IdleSetup.response]]
  /\ UNCHANGED <<users, operations, now, calls, tokens, client, exchanges>>

\* The rest of the handler: bcrypt.hash and createUser are awaited.  The
\* users table has a unique constraint on email: the insert of an e-mail
\* stored in the meantime is refused by the store, and the catch block
\* answers 500.
SetupInsert(p) ==
  /\ setups[p].pc = "checked"
  /\ IF getUserByEmail(setups[p].email) # {}
     THEN /\ UNCHANGED users
          /\ setups' = [setups EXCEPT ![p].pc = "done",
                                      ![p].response =
                                        Message(500, "Setup failed")]
     ELSE /\ createUser([email |-> setups[p].email,
                         password |-> Hash(setups[p].password),
                         role |-> "admin"])
          /\ setups' = [setups EXCEPT ![p].pc = "done",
                                      ![p].response =
                                        SetupResponse(setups[p].email,
                                                      setups[p].password)]
  /\ UNCHANGED <<operations, now, calls, tokens, client, exchanges>>

(***************************************************************************)
(* POST /api/auth/login, and the logout of the browser                     *)
(***************************************************************************)
\* z.string().email() of loginSchema (zod, taken as a library): the
\* e-mails of the inputs that have the form of an address.
IsEmail(email) ==
  email \in {"admin@app.com", "user@app.com", "ghost@app.com"}

\* The login response that tells an unknown e-mail from a wrong password.
LoginResponseNamingUser(email, password) ==
  IF ~IsEmail(email) \/ password = "" THEN Message(400, "Validation error")
  ELSE IF getUserByEmail(email) = {} THEN Message(401, "User not found")
  ELSE Message(401, "Invalid email or password")

\* The login response that returns the stored user as it is.
LoginResponseWholeUser(email, password) ==
  IF ~IsEmail(email) \/ password = "" THEN Message(400, "Validation error")
  ELSE IF getUserByEmail(email) = {}
       THEN Message(401, "Invalid email or password")
  ELSE LET user == CHOOSE u \in getUserByEmail(email) : TRUE
       IN  IF ~compare(password, user.password)
           THEN Message(401, "Invalid email or password")
           ELSE Response(200,
                  [token |-> sign([sub  |-> user.id,
                                   role |-> user.role,
                                   exp  |-> now + TicksPerDay], JWT_SECRET),
                   user  |-> user])

\* The response of the login handler.
LoginResponse(email, password) ==
  IF ~IsEmail(email) \/ password = "" THEN Message(400, "Validation error")
  ELSE IF getUserByEmail(email) = {}
       THEN Message(401, "Invalid email or password")
  ELSE LET user == CHOOSE u \in getUserByEmail(email) : TRUE
       IN  IF ~compare(password, user.password)
           THEN Message(401, "Invalid email or password")
           ELSE Response(200,
                  [token |-> sign([sub  |-> user.id,
                                   role |-> user.role,
                                   exp  |-> now + TicksPerDay], JWT_SECRET),
                   user  |-> Summary(user)])

\* The login page posts the form and, on success, AuthContext.login keeps
\* the token in localStorage.
Login(email, password) ==
  LET response == LoginResponse(email, password)
  IN  /\ Log(Exchange("login", NoHeader,
                      [email |-> email, password |-> password], response, TRUE))
      /\ tokens' = IF response.status = 200
                   THEN tokens \cup {response.body.token} ELSE tokens
      /\ client' = IF response.status = 200
                   THEN {response.body.token} ELSE client
      /\ UNCHANGED <<users, operations, now, calls, setups>>

\* AuthContext.logout: the browser forgets its token.  Nothing is sent to
\* the server.
Logout ==
  /\ client # {}
  /\ client' = {}
  /\ UNCHANGED <<users, operations, now, calls, tokens, exchanges, setups>>

(***************************************************************************)
(* The protected routes: authMiddleware, then the handler                  *)
(***************************************************************************)
\* req.query[name], with the default of the destructuring when absent.
Param(query, name, default) ==
  IF name \in DOMAIN query THEN query[name] ELSE default

\* GET /api/operations after the gate, for the user it handed over.
ListResponses(user, query) ==
  LET pageNum  == parseInt(Param(query, "page", <<"1">>))
      limitNum == parseInt(Param(query, "limit", <<"1", "0">>))
  IN  IF \/ ~pageNum.nan /\ pageNum.value < 1
         \/ ~limitNum.nan /\ (limitNum.value < 1 \/ limitNum.value > 100)
      THEN {Message(400, "Invalid pagination parameters")}
      ELSE IF pageNum.nan \/ limitNum.nan
      \* NaN passes the three comparisons; the store refuses NaN as LIMIT
      \* or OFFSET and the error handler answers
      THEN {Message(500, "Internal server error")}
      ELSE { IF result.error THEN Message(500, "Internal server error")
             ELSE Response(200, [operations |-> result.operations,
                                 total      |-> result.total,
                                 page       |-> pageNum.value,
                                 limit      |-> limitNum.value]) :
             result \in getOperations(
               [userId   |-> user.id,
                type     |-> Param(query, "type", <<>>),
                currency |-> Param(query, "currency", <<>>),
                search   |-> Param(query, "search", <<>>),
                page     |-> pageNum.value,
                limit    |-> limitNum.value], operations) }

\* The query as it is recorded: with page always present.
QueryRecorded(query) ==
  [type     |-> Param(query, "type", <<>>),
   currency |-> Param(query, "currency", <<>>),
   search   |-> Param(query, "search", <<>>),
   page     |-> Param(query, "page", <<"1">>),
   limit    |-> Param(query, "limit", <<"1", "0">>)]

ListOperations(header, query) ==
  LET auth == authMiddleware(header, now)
  IN  /\ IF auth.status = 401
         THEN Log(Exchange("list", header, QueryRecorded(query), auth, FALSE))
         ELSE \E response \in ListResponses(auth.body, query) :
                Log(Exchange("list", header, QueryRecorded(query), response,
                             TRUE))
      /\ UNCHANGED <<users, operations, now, calls, tokens, client, setups>>

\* GET /api/operations/stats
Stats(header) ==
  LET auth == authMiddleware(header, now)
  IN  /\ IF auth.status = 401
         THEN Log(Exchange("stats", header, <<>>, auth, FALSE))
         ELSE Log(Exchange("stats", header, <<>>,
                    Response(200, getOperationStats(auth.body.id, operations)),
                    TRUE))
      /\ UNCHANGED <<users, operations, now, calls, tokens, client, setups>>

\* insertOperationSchema.parse(body): type is one of the enum, amount a
\* string that Number() turns into a number greater than 0, currency a
\* string of 3 to 10 characters.
insertOperationSchema(body) ==
  /\ body.type \in {BUY, SELL}
  /\ ~isNaN(StringToNumber(body.amount))
  /\ ~LeqZero(StringToNumber(body.amount))
  /\ Len(body.currency) >= 3
  /\ Len(body.currency) <= 10

\* POST /api/operations up to the call of the service: the gate, the
\* schema, and createOperation begun for the user of the token.  The steps
\* of the call follow (Step), and its outcome is answered by
\* CreateResponse.
PostOperation(p, header, body, fault) ==
  LET auth == authMiddleware(header, now)
  IN  /\ calls[p].pc \in {"idle", "done"}
      /\ IF auth.status = 401
         THEN /\ Log(Exchange("create", header, body, auth, FALSE))
              /\ UNCHANGED calls
         ELSE IF ~insertOperationSchema(body)
         THEN /\ Log(Exchange("create", header, body,
                              Message(400, "Validation error"), TRUE))
              /\ UNCHANGED calls
         ELSE /\ Log(Exchange("create", header, body, Pending, TRUE))
              /\ calls' = [calls EXCEPT ![p] =
                   Started(p, Request(body.type, body.amount, body.currency,
                                      auth.body.id), fault)]
      /\ UNCHANGED <<users, operations, now, tokens, client, setups>>

\* process.env.NODE_ENV
Environments == {"development", "production"}

\* The details of a 500: the error's message in development only.
Redacted(reason, env) ==
  IF env = "development" THEN reason ELSE "Internal server error"

\* The response that answers every refusal of the service with 400.
CreateResponseAllBadRequest(call, env) ==
  CASE call.result.kind = "ok" -> Response(201, call.row)
    [] call.result.kind \in {"ValidationError", "BusinessRuleError"} ->
         Response(400, [message |-> "Validation failed",
                        details |-> call.result.reason])
    [] call.result.kind = "TransactionError" ->
         Response(500, [message |-> "Transaction failed",
                        details |-> Redacted(call.result.reason, env)])
    [] OTHER -> Message(500, "Internal server error")

\* The response of POST /api/operations to the outcome of the call, in
\* the environment: the catch block of the route, and for an error it
\* rethrows the global error handler (its details, present in development
\* only, are left out).
CreateResponse(call, env) ==
  CASE call.result.kind = "ok" -> Response(201, call.row)
    [] call.result.kind = "ValidationError" ->
         Response(400, [message |-> "Validation failed",
                        details |-> call.result.reason])
    [] call.result.kind = "BusinessRuleError" ->
         Response(422, [message |-> "Business rule violation",
                        details |-> call.result.reason])
    [] call.result.kind = "TransactionError" ->
         Response(500, [message |-> "Transaction failed",
                        details |-> Redacted(call.result.reason, env)])
    [] OTHER -> Message(500, "Internal server error")

\* The clock.  The exchanges remembered are those of the current instant.
Tick ==
  /\ now' = now + 1
  /\ exchanges' = <<>>
  /\ UNCHANGED <<users, operations, calls, tokens, client, setups>>

\* getOperations called on the service (no route, no gate).
GetOperations(params) ==
  /\ \E result \in getOperations(params, operations) :
       Log(Exchange("getOperations", NoHeader, params,
                    Response(IF result.error THEN 500 ELSE 200,
                             [operations |-> result.operations,
                              total      |-> result.total]), TRUE))
  /\ UNCHANGED <<users, operations, now, calls, tokens, client, setups>>

\* getOperations called on the service, its two queries answered one at
\* a time (Promise.all sends both; the store answers them in either
\* order, each on the rows committed when it runs).  QueryPage and
\* QueryTotal answer the first of the two and leave the call pending, with
\* the number of rows stored at that moment; QuerySecond answers the
\* other one and the call returns.
QueryPage(params) ==
  /\ \E page \in PageQuery(params, operations) :
       exchanges' = <<Exchange("getOperations", NoHeader, params,
                         Response(0, [operations |-> page, total |-> 0,
                                      read |-> "page"]), TRUE)>>
  /\ UNCHANGED <<users, operations, now, calls, tokens, client, setups>>

QueryTotal(params) ==
  /\ exchanges' = <<Exchange("getOperations", NoHeader, params,
                       Response(0, [operations |-> <<>>,
                                    total |-> CountQuery(params, operations),
                                    read |-> "total"]), TRUE)>>
  /\ UNCHANGED <<users, operations, now, calls, tokens, client, setups>>

QuerySecond ==
  /\ exchanges # <<>>
  /\ exchanges[1].route = "getOperations"
  /\ exchanges[1].status = 0
  /\ LET first  == exchanges[1]
         params == first.request
     IN  \E page \in (IF first.body.read = "page" THEN {first.body.operations}
                      ELSE PageQuery(params, operations)) :
           exchanges' =
             <<[first EXCEPT
                  !.status = 200,
                  !.body = [operations |-> page,
                            total |-> IF first.body.read = "total"
                                      THEN first.body.total
                                      ELSE CountQuery(params, operations)]]>>
  /\ UNCHANGED <<users, operations, now, calls, tokens, client, setups>>

(***************************************************************************)
(* Inputs                                                                  *)
(***************************************************************************)
SetupEmails == {"", "admin@app.com", "user@app.com"}

SetupPasswords == {"", "admin123"}

\* The ids a request can carry: the two users setup can create, and one
\* that is never stored.
RequestUserIds == {"u1", "u2", "u9"}

HOLD == <<"H", "O", "L", "D">>

RequestTypes == {BUY, SELL, HOLD, <<"b", "u", "y">>, <<>>}

\* The 12 codes, codes in lower and mixed case, and codes off the list.
RequestCurrencies ==
  validCurrencies \cup
  { <<"u", "s", "d">>, <<"B", "t", "c">>, <<"e", "t", "h">>,
    <<"X", "X", "X">>, <<"U", "S", "D", "T">>, <<"U", "S">>, <<>> }

\* Amounts chosen for the cases of the rules: at and around 0, the
\* precision limits, 10,000 and the notations of Number::toString.
CuratedAmounts ==
  { <<"5">>,
    <<"1", "2", ".", "5">>,
    <<"1", "2", ".", "3", "4">>,
    <<"1", "2", ".", "3", "4", "5">>,
    <<"1", ".", "0", "0", "0">>,
    <<"0", ".", "0", "1">>,
    <<"0", ".", "0", "0", "1">>,
    <<"0", ".", "0", "0", "5">>,
    <<"0", ".", "0", "0", "6">>,
    <<"0", ".", "1", "2", "3", "4", "5", "6", "7", "8">>,
    <<"0", ".", "1", "2", "3", "4", "5", "6", "7", "8", "9">>,
    <<"0", ".", "0", "0", "0", "0", "0", "1">>,
    <<"0", ".", "0", "0", "0", "0", "0", "0", "5">>,
    <<"0", ".", "0", "0", "0", "0", "0", "0", "0", "1">>,
    <<"1", ".", "0", "0", "0", "0", "0", "0", "0", "1">>,
    <<"9", "9", "9", "9", ".", "9", "9">>,
    <<"9", "9", "9", "9", ".", "9", "9", "9">>,
    <<"1", "0", "0", "0", "0">>,
    <<"1", "0", "0", "0", "0", ".", "0", "0">>,
    <<"1", "0", "0", "0", "0", ".", "0", "1">>,
    <<"1", "0", "0", "0", "0", ".", "0", "0", "1">>,
    <<"1", "0", "0", "0", "1">>,
    <<"1", "e", "4">>,
    <<"2", "e", "4">>,
    <<"1", "e", "2", "1">>,
    <<"0">>,
    <<"0", ".", "0", "0">>,
    <<"-", "5">>,
    <<"-", "0", ".", "0", "1">>,
    <<>>,
    <<"a", "b", "c">>,
    <<"N", "a", "N">>,
    <<"5", "a", "b", "c">>,
    <<"1", "2", "p", "x">>,
    <<"1", ",", "5">>,
    <<" ", "7">>,
    <<"+", "7">>,
    InfinityWord }

AmountAlphabet == {"0", "1", ".", "-", "e", "x"}

\* Every string over AmountAlphabet of at most MaxAmountLen characters.
MaxAmountLen == 3

ShortAmounts ==
  UNION {[1..k -> AmountAlphabet] : k \in 0..MaxAmountLen}

(***************************************************************************)
(* Spec: the service from an empty database.  Users are created by setup,  *)
(* createOperation calls run one at a time (handler p1), with requests     *)
(* drawn from SpecRequests, until MaxStored operations are stored.         *)
(***************************************************************************)
MaxStored == 2

SpecRequests ==
  { Request(BUY, <<"5">>, USD, "u1"),
    Request(SELL, <<"1", "2", ".", "3", "4">>, <<"u", "s", "d">>, "u2"),
    Request(SELL, <<"0", ".", "0", "0", "1">>, <<"B", "t", "c">>, "u1"),
    Request(BUY, <<"0", ".", "0", "0", "5">>, ETH, "u2"),
    Request(BUY, <<"9", "9", "9", "9", ".", "9", "9", "9">>, SOL, "u1"),
    Request(BUY, <<"1", "0", "0", "0", "0">>, EUR, "u2"),
    Request(BUY, <<"1", "0", "0", "0", "0", ".", "0", "1">>, USD, "u1"),
    Request(BUY, <<"1", "2", ".", "3", "4", "5">>, USD, "u1"),
    Request(BUY, <<"0">>, USD, "u1"),
    Request(BUY, <<"5", "a", "b", "c">>, JPY, "u1"),
    Request(BUY, <<"5">>, <<"X", "X", "X">>, "u1"),
    Request(HOLD, <<"5">>, USD, "u1"),
    Request(<<"b", "u", "y">>, <<"5">>, USD, "u2"),
    Request(SELL, <<"5">>, GBP, "u9") }

Init ==
  /\ users = {}
  /\ operations = <<>>
  /\ now = 0
  /\ calls = [p \in Procs |-> IdleCall]
  /\ tokens = {}
  /\ client = {}
  /\ exchanges = <<>>
  /\ setups = [p \in Procs |-> IdleSetup]

Next ==
  \/ \E email \in SetupEmails, password \in SetupPasswords :
       SetupAdmin(email, password)
  \/ /\ Len(operations) < MaxStored
     /\ calls["p1"].pc \in {"idle", "done"}
     /\ \E data \in SpecRequests, fault \in Faults : Begin("p1", data, fault)
  \/ Step("p1")

Spec == Init /\ [][Next]_vars

(***************************************************************************)
(* SpecLimit: two users, each sending the same valid request again and     *)
(* again, one call at a time, until MaxLimitStored operations are stored.  *)
(***************************************************************************)
MaxLimitStored == 12

SeedUsers ==
  { [id |-> "u1", email |-> "admin@app.com", password |-> Hash("admin123"),
     role |-> "admin"],
    [id |-> "u2", email |-> "user@app.com", password |-> Hash("admin123"),
     role |-> "admin"] }

LimitRequests ==
  { Request(BUY, <<"5">>, USD, "u1"), Request(SELL, <<"5">>, USD, "u2") }

InitLimit ==
  /\ users = SeedUsers
  /\ operations = <<>>
  /\ now = 0
  /\ calls = [p \in Procs |-> IdleCall]
  /\ tokens = {}
  /\ client = {}
  /\ exchanges = <<>>
  /\ setups = [p \in Procs |-> IdleSetup]

NextLimit ==
  \/ /\ Len(operations) < MaxLimitStored
     /\ calls["p1"].pc \in {"idle", "done"}
     /\ \E data \in LimitRequests, fault \in {"none", "commit"} :
          Begin("p1", data, fault)
  \/ Step("p1")

SpecLimit == InitLimit /\ [][NextLimit]_vars

(***************************************************************************)
(* SpecCall: one createOperation call, for every request of CallRequests   *)
(* and every fault, on each of the tables of CallStores.                   *)
(***************************************************************************)
CallTime == 2 * TicksPerDay

Repeat(x, k) == [i \in 1..k |-> x]

\* A table with one 5.00 USD BUY per owner, all created at time t.
MakeStore(owners, t) ==
  [i \in 1..Len(owners) |->
     [id |-> i, type |-> BUY, amount |-> <<"5", ".", "0", "0">>,
      currency |-> USD, userId |-> owners[i], createdAt |-> t]]

\* Empty; u1 one short of the limit, today and long ago, beside a u2 at
\* the limit; u1 at the limit, today and long ago; u1 above it (the count
\* check is not serialised between concurrent calls).
CallStores ==
  { MakeStore(<<>>, 0),
    MakeStore(Repeat("u2", DailyOperationLimit)
                \o Repeat("u1", DailyOperationLimit - 1), CallTime),
    MakeStore(Repeat("u1", DailyOperationLimit - 1), 0),
    MakeStore(Repeat("u1", DailyOperationLimit), CallTime),
    MakeStore(Repeat("u1", DailyOperationLimit), 0),
    MakeStore(Repeat("u1", DailyOperationLimit + 1), CallTime) }

CallRequests ==
  { Request(BUY, a, c, "u1") :
      a \in ShortAmounts, c \in {USD, <<"B", "t", "c">>, <<"X", "X", "X">>} }
  \cup
  { Request(BUY, a, c, "u1") : a \in CuratedAmounts, c \in RequestCurrencies }
  \cup
  { Request(t, a, c, u) :
      t \in RequestTypes,
      a \in { <<"5">>, <<"0">>, <<"1", "0", "0", "0", "1">>,
              <<"1", "2", ".", "3", "4", "5">>, <<"5", "a", "b", "c">> },
      c \in {USD, <<"e", "t", "h">>, <<"X", "X", "X">>},
      u \in RequestUserIds }

InitCall ==
  /\ users = SeedUsers
  /\ operations \in CallStores
  /\ now = CallTime
  /\ calls = [p \in Procs |-> IdleCall]
  /\ tokens = {}
  /\ client = {}
  /\ exchanges = <<>>
  /\ setups = [p \in Procs |-> IdleSetup]

NextCall ==
  \/ /\ calls["p1"].pc = "idle"
     /\ \E data \in CallRequests, fault \in Faults : Begin("p1", data, fault)
  \/ Step("p1")

SpecCall == InitCall /\ [][NextCall]_vars

(***************************************************************************)
(* SpecApi: the routes from an empty database: setup, login and logout,    *)
(* the clock, and the three protected routes with every header of          *)
(* Headers, createOperation calls running one at a time (handler p1).      *)
(***************************************************************************)
MaxTime == TicksPerDay + 1

MaxApiStored == 1

\* The bodies posted to setup: two users, and a body without password.
SetupForms ==
  { [email |-> "admin@app.com", password |-> "admin123"],
    [email |-> "user@app.com", password |-> "admin123"],
    [email |-> "admin@app.com", password |-> ""] }

LoginInstants == IF TicksPerDay < 2 THEN TicksPerDay ELSE 2

\* The forms posted to login: the right and a wrong password of a stored
\* e-mail, an e-mail that is not stored, and two malformed bodies.
LoginForms ==
  { [email |-> "admin@app.com", password |-> "admin123"],
    [email |-> "admin@app.com", password |-> "wrong"],
    [email |-> "ghost@app.com", password |-> "admin123"],
    [email |-> "not-an-email", password |-> "admin123"],
    [email |-> "admin@app.com", password |-> ""] }

\* Tokens login did not sign: a string that is no token, a token signed
\* with another key, and a token of the server's key whose subject is no
\* stored user (signed for another database).
OutsideTokens ==
  { Garbage,
    sign([sub |-> "u1", role |-> "admin", exp |-> MaxTime + 1], "another key"),
    sign([sub |-> "u9", role |-> "admin", exp |-> MaxTime + 1], JWT_SECRET) }

\* The headers a request can carry: none, a token under Bearer, and the
\* browser's token under another scheme.
Headers ==
  {NoHeader}
  \cup {Header("Bearer", t) : t \in tokens \cup OutsideTokens}
  \cup {Header("Basic", t) : t \in client}

ApiQueries ==
  { <<>>, [page |-> <<"x">>] }

ApiBodies ==
  { [type |-> BUY, amount |-> <<"5">>, currency |-> USD],
    [type |-> BUY, amount |-> <<"1", "x">>, currency |-> USD] }

InitApi ==
  /\ users = {}
  /\ operations = <<>>
  /\ now = 0
  /\ calls = [p \in Procs |-> IdleCall]
  /\ tokens = {}
  /\ client = {}
  /\ exchanges = <<>>
  /\ setups = [p \in Procs |-> IdleSetup]

\* Logins happen at the first two instants, and the clock runs a tick past
\* the expiry of the last token.
NextApi ==
  \/ \E form \in SetupForms : PostSetupAdmin(form.email, form.password)
  \/ /\ now < LoginInstants
     /\ \E form \in LoginForms : Login(form.email, form.password)
  \/ Logout
  \/ now < MaxTime /\ Tick
  \/ \E header \in Headers :
       \/ \E query \in ApiQueries : ListOperations(header, query)
       \/ Stats(header)
       \/ /\ Len(operations) < MaxApiStored
          /\ \E body \in ApiBodies : PostOperation("p1", header, body, "none")
  \/ Step("p1")

SpecApi == InitApi /\ [][NextApi]_vars

(***************************************************************************)
(* SpecList: getOperations with each of the parameters of ListParams on    *)
(* each of the tables of ListStores.                                       *)
(***************************************************************************)
MaxPage == 3

ListRow(i, type, amount, currency, userId, createdAt) ==
  [id |-> i, type |-> type, amount |-> amount, currency |-> currency,
   userId |-> userId, createdAt |-> createdAt]

\* 25 operations of three users, created one after the other.
Store25 ==
  [i \in 1..25 |->
     ListRow(i, IF i % 2 = 0 THEN BUY ELSE SELL,
             <<"5", ".", "0", "0">>,
             IF i % 3 = 0 THEN BTC ELSE USD,
             IF i <= 10 THEN "u1" ELSE IF i <= 20 THEN "u2" ELSE "u3",
             i)]

\* Five operations of mixed types, currencies and amounts.
StoreMixed ==
  << ListRow(1, BUY, <<"5", ".", "0", "0">>, USD, "u1", 1),
     ListRow(2, SELL, <<"1", "2", ".", "3", "4">>, USD, "u1", 2),
     ListRow(3, BUY, <<"5", "0", "0", ".", "0", "0">>, BTC, "u1", 3),
     ListRow(4, BUY, <<"0", ".", "5", "0">>, EUR, "u2", 4),
     ListRow(5, SELL, <<"5", "0", ".", "0", "0">>, SOL, "u1", 5) >>

\* Three operations, the two older ones inserted at the same instant.
StoreTied ==
  << ListRow(1, BUY, <<"1", ".", "0", "0">>, USD, "u1", 1),
     ListRow(2, BUY, <<"2", ".", "0", "0">>, USD, "u1", 1),
     ListRow(3, BUY, <<"3", ".", "0", "0">>, USD, "u1", 2) >>

ListStores == {Store25, StoreMixed, StoreTied}

SearchTerms ==
  { <<>>, <<"u", "s", "d">>, <<"5">>, <<"b", "u", "y">>, <<"%">>,
    <<"5", "_", "0">> }

\* Every combination of the filters on the first page, and the pages of
\* the unfiltered list.
ListParams ==
  { [userId |-> u, type |-> t, currency |-> c, search |-> q,
     page |-> 1, limit |-> 10] :
      u \in {"", "u1"}, t \in {<<>>, BUY, AllTypes},
      c \in {<<>>, USD, AllCurrencies}, q \in SearchTerms }
  \cup
  { [userId |-> "", type |-> <<>>, currency |-> <<>>, search |-> <<>>,
     page |-> p, limit |-> l] : p \in 1..MaxPage, l \in {2, 10} }

InitList ==
  /\ users = SeedUsers
  /\ operations \in ListStores
  /\ now = CallTime
  /\ calls = [p \in Procs |-> IdleCall]
  /\ tokens = {}
  /\ client = {}
  /\ exchanges = <<>>
  /\ setups = [p \in Procs |-> IdleSetup]

\* A client fetches at most LogLength pages of a list in a row.
NextList ==
  /\ Len(exchanges) < LogLength
  /\ \E params \in ListParams : GetOperations(params)

SpecList == InitList /\ [][NextList]_vars

(***************************************************************************)
(* SpecOwn: two users, each holding the token of a login at time 0,        *)
(* creating operations (one call at a time) until MaxOwnStored are stored  *)
(* and reading the list and the stats, all within the same instant.        *)
(***************************************************************************)
MaxOwnStored == 2

\* The token login signs for the user at time 0.
OwnToken(u) ==
  sign([sub |-> u.id, role |-> u.role, exp |-> TicksPerDay], JWT_SECRET)

OwnHeaders == {Header("Bearer", OwnToken(u)) : u \in SeedUsers}

OwnBodies ==
  { [type |-> BUY, amount |-> <<"5">>, currency |-> USD],
    [type |-> SELL, amount |-> <<"7">>, currency |-> BTC] }

OwnQueries ==
  { <<>>,
    [type |-> BUY],
    [currency |-> BTC],
    [type |-> AllTypes, currency |-> USD],
    [search |-> <<"5">>],
    [type |-> BUY, currency |-> USD, search |-> <<"u", "s">>],
    [page |-> <<"2">>, limit |-> <<"1">>] }

InitOwn ==
  /\ users = SeedUsers
  /\ operations = <<>>
  /\ now = 0
  /\ calls = [p \in Procs |-> IdleCall]
  /\ tokens = {OwnToken(u) : u \in SeedUsers}
  /\ client = {}
  /\ exchanges = <<>>
  /\ setups = [p \in Procs |-> IdleSetup]

NextOwn ==
  \/ \E header \in OwnHeaders :
       \/ \E query \in OwnQueries : ListOperations(header, query)
       \/ Stats(header)
       \/ /\ Len(operations) < MaxOwnStored
          /\ \E body \in OwnBodies : PostOperation("p1", header, body, "none")
  \/ Step("p1")

SpecOwn == InitOwn /\ [][NextOwn]_vars

(***************************************************************************)
(* SpecPost: one POST /api/operations of a user holding a token, for every *)
(* body of PostBodies and every fault of the store, on an empty table and  *)
(* on a table where the first user has reached the limit.                  *)
(***************************************************************************)
\* A body of a type outside the enum and one whose amount is no number
\* (refused by the schema); an amount Number() accepts and parseFloat reads
\* as 0, and a currency that is not listed (refused by the structural
\* checks); an amount above the cap; and a valid body.
PostBodies ==
  { [type |-> HOLD, amount |-> <<"5">>, currency |-> USD],
    [type |-> BUY, amount |-> <<"1", "x">>, currency |-> USD],
    [type |-> BUY, amount |-> <<"0", "x", "1", "0">>, currency |-> USD],
    [type |-> BUY, amount |-> <<"5">>, currency |-> <<"X", "X", "X">>],
    [type |-> BUY, amount |-> <<"1", "0", "0", "0", "1">>, currency |-> USD],
    [type |-> SELL, amount |-> <<"5">>, currency |-> USD] }

PostStores ==
  { MakeStore(<<>>, 0), MakeStore(Repeat("u1", DailyOperationLimit), 0) }

InitPost ==
  /\ users = SeedUsers
  /\ operations \in PostStores
  /\ now = 0
  /\ calls = [p \in Procs |-> IdleCall]
  /\ tokens = {OwnToken(u) : u \in SeedUsers}
  /\ client = {}
  /\ exchanges = <<>>
  /\ setups = [p \in Procs |-> IdleSetup]

NextPost ==
  \/ /\ calls["p1"].pc = "idle"
     /\ exchanges = <<>>
     /\ \E header \in OwnHeaders, body \in PostBodies, fault \in Faults :
          PostOperation("p1", header, body, fault)
  \/ Step("p1")

SpecPost == InitPost /\ [][NextPost]_vars

(***************************************************************************)
(* SpecRace: the two request handlers run createOperation calls of the     *)
(* first user at the same time, their statements interleaved, on a table   *)
(* where that user is one operation short of the limit.                    *)
(***************************************************************************)
RaceRequests ==
  { Request(BUY, <<"5">>, USD, "u1"), Request(SELL, <<"7">>, BTC, "u1") }

InitRace ==
  /\ users = SeedUsers
  /\ operations = MakeStore(Repeat("u1", DailyOperationLimit - 1), 0)
  /\ now = 0
  /\ calls = [p \in Procs |-> IdleCall]
  /\ tokens = {}
  /\ client = {}
  /\ exchanges = <<>>
  /\ setups = [p \in Procs |-> IdleSetup]

NextRace ==
  \E p \in Procs :
    \/ \E data \in RaceRequests : Begin(p, data, "none")
    \/ Step(p)

SpecRace == InitRace /\ [][NextRace]_vars

(***************************************************************************)
(* SpecRead: getOperations of the first user, its two queries answered     *)
(* one at a time, while handler p1 runs createOperation calls of that      *)
(* user until MaxReadStored operations are stored.                         *)
(***************************************************************************)
MaxReadStored == 3

ReadParams ==
  { [userId |-> "u1", type |-> <<>>, currency |-> <<>>, search |-> <<>>,
     page |-> 1, limit |-> l] : l \in {1, 10} }

InitRead ==
  /\ users = SeedUsers
  /\ operations = MakeStore(<<"u2">>, 0)
  /\ now = 0
  /\ calls = [p \in Procs |-> IdleCall]
  /\ tokens = {}
  /\ client = {}
  /\ exchanges = <<>>
  /\ setups = [p \in Procs |-> IdleSetup]

\* A query of the list is sent when no call of getOperations is pending.
NextRead ==
  \/ /\ Len(operations) < MaxReadStored
     /\ calls["p1"].pc \in {"idle", "done"}
     /\ \E data \in RaceRequests : Begin("p1", data, "none")
  \/ Step("p1")
  \/ /\ exchanges # <<>> => exchanges[1].status # 0
     /\ \E params \in ReadParams : QueryPage(params) \/ QueryTotal(params)
  \/ QuerySecond

SpecRead == InitRead /\ [][NextRead]_vars

(***************************************************************************)
(* SpecSetup: the two request handlers run POST /api/setup/admin with the  *)
(* bodies of SetupForms, their statements interleaved, from an empty       *)
(* database.                                                               *)
(***************************************************************************)
InitSetup ==
  /\ users = {}
  /\ operations = <<>>
  /\ now = 0
  /\ calls = [p \in Procs |-> IdleCall]
  /\ tokens = {}
  /\ client = {}
  /\ exchanges = <<>>
  /\ setups = [p \in Procs |-> IdleSetup]

NextSetup ==
  \E p \in Procs :
    \/ \E form \in SetupForms : SetupBegin(p, form.email, form.password)
    \/ SetupInsert(p)

SpecSetup == InitSetup /\ [][NextSetup]_vars

(***************************************************************************)
(* Vocabulary of the properties                                            *)
(***************************************************************************)
\* The call of handler p1, the one the specifications run.
TheCall == calls["p1"]

CallDone == TheCall.pc = "done"

Succeeded == CallDone /\ TheCall.result.kind = "ok"

Failed == CallDone /\ TheCall.result.kind # "ok"

\* The tables are those from before the call.
NothingWritten ==
  operations = TheCall.opsBefore /\ users = TheCall.usersBefore

\* The store opened the transaction of the call.
TransactionOpened == TheCall.fault # "begin"

\* s is a decimal numeral written plainly: digits, then optionally a point
\* and more digits.
PlainDecimal(s) ==
  LET i == DigitRun(s)
  IN  /\ i >= 1
      /\ \/ Len(s) = i
         \/ /\ Len(s) >= i + 2
            /\ s[i + 1] = "."
            /\ DigitRun(Drop(s, i + 1)) = Len(s) - i - 1

\* s is the text of a number: after leading blanks an optional sign, a plain decimal numeral (a
\* digit may be missing on one side of the point), optionally an exponent;
\* or Infinity.
NumericText(s) ==
  LET t      == Drop(s, BlankRun(s))
      signed == t # <<>> /\ Head(t) \in {"+", "-"}
      u      == IF signed THEN Tail(t) ELSE t
      i      == DigitRun(u)
      dotted == Len(u) > i /\ u[i + 1] = "."
      f      == IF dotted THEN DigitRun(Drop(u, i + 1)) ELSE 0
      rest   == Drop(u, i + (IF dotted THEN 1 + f ELSE 0))
      signedE == Len(rest) >= 2 /\ rest[2] \in {"+", "-"}
      expDigits == Drop(rest, IF signedE THEN 2 ELSE 1)
  IN  \/ u = InfinityWord
      \/ /\ i + f >= 1
         /\ \/ rest = <<>>
            \/ /\ Head(rest) \in {"e", "E"}
               /\ expDigits # <<>>
               /\ DigitRun(expDigits) = Len(expDigits)

\* The value of a numeric text.
ValueOf(s) == parseFloat(s)

\* The amount is the text of a number greater than 0.
PositiveAmount(s) == NumericText(s) /\ ~LeqZero(ValueOf(s))

\* The number of decimal places of a positive number.
DecimalPlaces(x) ==
  IF Len(x.digits) > x.n THEN Len(x.digits) - x.n ELSE 0

\* Two strings that differ at most in the case of their letters.
SameIgnoringCase(a, b) ==
  Len(a) = Len(b) /\ \A i \in 1..Len(a) : UpperChar(a[i]) = UpperChar(b[i])

OnAllowList(currency) ==
  \E code \in validCurrencies : SameIgnoringCase(code, currency)

IsCrypto(currency) ==
  \E code \in cryptoCurrencies : SameIgnoringCase(code, currency)

\* The decimals the precision class of the currency allows.
AllowedDecimals(currency) ==
  IF IsCrypto(currency) THEN CryptoDecimals ELSE FiatDecimals

\* s is digits, a point and exactly StoredDecimals digits.
FixedForm(s) ==
  /\ DigitRun(s) >= 1
  /\ Len(s) = DigitRun(s) + 1 + StoredDecimals
  /\ s[DigitRun(s) + 1] = "."
  /\ DigitRun(Drop(s, DigitRun(s) + 1)) = StoredDecimals

\* The value of a stored amount in hundredths (FixedForm, below 10^7).
StoredCents(s) ==
  NatOfDigits([j \in 1..DigitRun(s) |-> DigitOf(s[j])]
                \o [j \in 1..StoredDecimals |-> DigitOf(s[DigitRun(s) + 1 + j])],
              0, 1000000000)

\* The positive number k / 1000.
Thousandths(k) == MakeNumber(FALSE, DigitsOfNat(k), Len(DigitsOfNat(k)) - 3)

\* |x - cents/100| <= 0.005 for a positive number x: cents/100 is x rounded
\* to two decimals.
WithinHalfCent(x, cents) ==
  /\ ~PosLess(Thousandths(10 * cents + 5), x)
  /\ cents = 0 \/ ~PosLess(x, Thousandths(10 * cents - 5))

\* The operations of a table owned by a user.
OwnedBy(rows, userId) == {i \in DOMAIN rows : rows[i].userId = userId}

UserStored(userId) == \E u \in users : u.id = userId

(***************************************************************************)
(* Properties of one call (SpecCall)                                       *)
(***************************************************************************)
\* The request is valid in the sense of C1: type BUY or SELL, an amount
\* greater than 0, a currency of the allow-list, and no more decimals than
\* the precision class of the currency allows.
ValidRequest(data) ==
  /\ data.type \in {BUY, SELL}
  /\ PositiveAmount(data.amount)
  /\ OnAllowList(data.currency)
  /\ DecimalPlaces(ValueOf(data.amount)) <= AllowedDecimals(data.currency)

\* The call succeeded and stored exactly one new record, the returned one:
\* the request's type and user, the amount rounded to two decimals and
\* written with two decimals, the currency in upper case.
StoredNormalized ==
  /\ Succeeded
  /\ operations = TheCall.opsBefore \o <<TheCall.row>>
  /\ users = TheCall.usersBefore
  /\ TheCall.row.type = TheCall.data.type
  /\ TheCall.row.userId = TheCall.data.userId
  /\ FixedForm(TheCall.row.amount)
  /\ WithinHalfCent(ValueOf(TheCall.data.amount), StoredCents(TheCall.row.amount))
  /\ TheCall.row.currency \in validCurrencies
  /\ SameIgnoringCase(TheCall.row.currency, TheCall.data.currency)

\* C1: every valid request (type BUY or SELL, an amount greater than 0, a
\* currency of the allow-list, decimals within the precision class of the
\* currency) succeeds and stores exactly one record with the amount fixed
\* to 2 decimals and the currency uppercased; stated for the requests the
\* business rules admit (an amount of at most 10,000, a stored user who
\* owns fewer than 10 operations) and for the calls during which the store
\* does not fail.
C1_ValidRequestIsStored ==
  ( /\ CallDone
    /\ ValidRequest(TheCall.data)
    /\ ~GreaterThanNat(ValueOf(TheCall.data.amount), MaxSingleAmount)
    /\ UserStored(TheCall.data.userId)
    /\ Cardinality(OwnedBy(TheCall.opsBefore, TheCall.data.userId))
         < DailyOperationLimit
    /\ TheCall.fault = "none" )
  => StoredNormalized

\* C2 as claimed: a request whose amount is not the text of a number, or is
\* zero or negative, fails with ValidationError and leaves the stored
\* operations unchanged, whatever its type, currency and user and however
\* many operations the user owns (stated for the calls during which the
\* store does not fail).
C2_BadAmountIsRejected ==
  ( /\ CallDone
    /\ TheCall.fault = "none"
    /\ ~PositiveAmount(TheCall.data.amount) )
  => (TheCall.result.kind = "ValidationError" /\ NothingWritten)

\* C3: a request whose currency is, compared case-insensitively, none of
\* the 12 codes fails with ValidationError and writes nothing, for every
\* amount, type and user (the transaction having been opened).
C3_UnlistedCurrencyIsRejected ==
  ( /\ CallDone
    /\ TransactionOpened
    /\ ~OnAllowList(TheCall.data.currency) )
  => (TheCall.result.kind = "ValidationError" /\ NothingWritten)

\* An otherwise valid request was rejected by the currency check.
C3_Witness ==
  /\ Failed
  /\ TheCall.data.currency = <<"U", "S", "D", "T">>
  /\ TheCall.data.amount = <<"5">>
  /\ TheCall.data.type = BUY
  /\ TheCall.result = Error("ValidationError", "currency")
  /\ NothingWritten

C6_AboveCapIsBusinessRuleError ==
  ( /\ CallDone
    /\ TheCall.fault = "none"
    /\ PositiveAmount(TheCall.data.amount)
    /\ GreaterThanNat(ValueOf(TheCall.data.amount), MaxSingleAmount) )
  => (TheCall.result.kind = "BusinessRuleError" /\ NothingWritten)

\* The amount is exactly 10,000.
IsTenThousand(x) ==
  /\ ~GreaterThanNat(x, MaxSingleAmount)
  /\ ~PosLess(x, NumberOfNat(MaxSingleAmount))

\* C6 as amended: a request with an amount greater than 10,000 fails and
\* writes nothing, for every currency: with BusinessRuleError when it
\* passes the structural checks (precision, currency, type), with
\* ValidationError when it does not; an amount of exactly 10,000 is not
\* rejected by the amount rule; and no stored operation has an amount
\* above 10,000 (the error kinds stated for the calls during which the
\* store does not fail).
C6_AboveCapIsRejected ==
  /\ ( /\ CallDone
       /\ PositiveAmount(TheCall.data.amount)
       /\ GreaterThanNat(ValueOf(TheCall.data.amount), MaxSingleAmount) )
     => /\ Failed
        /\ NothingWritten
        /\ TheCall.fault = "none" =>
             TheCall.result.kind =
               IF StructuralChecks(TheCall.data).kind = "ok"
               THEN "BusinessRuleError" ELSE "ValidationError"
  /\ ( /\ CallDone
       /\ PositiveAmount(TheCall.data.amount)
       /\ IsTenThousand(ValueOf(TheCall.data.amount)) )
     => TheCall.result # Error("BusinessRuleError", "amountLimit")
  /\ \A i \in DOMAIN operations :
       /\ FixedForm(operations[i].amount)
       /\ StoredCents(operations[i].amount) <= MaxSingleAmount * 100

\* A request of 10,000.01 USD that passes the structural checks was
\* rejected by the amount rule.
C6_Witness ==
  /\ Failed
  /\ TheCall.data.amount = <<"1", "0", "0", "0", "0", ".", "0", "1">>
  /\ TheCall.data.currency = USD
  /\ TheCall.result = Error("BusinessRuleError", "amountLimit")
  /\ NothingWritten

\* C9 as claimed: a positive amount, written as a plain decimal numeral,
\* passes the precision check exactly when it has at most 2 decimal places
\* for a fiat currency and at most 8 for BTC, ETH, ADA and SOL; otherwise
\* the call fails with ValidationError.
C9_PrecisionByDecimalPlaces ==
  ( /\ CallDone
    /\ TransactionOpened
    /\ PlainDecimal(TheCall.data.amount)
    /\ ~LeqZero(ValueOf(TheCall.data.amount)) )
  => ( TheCall.result = Error("ValidationError", "precision")
         <=> DecimalPlaces(ValueOf(TheCall.data.amount))
               > AllowedDecimals(TheCall.data.currency) )

\* C10: whenever a call fails, with any error kind, the stored users and
\* operations are those from before the call; and at no moment of a call
\* that has not committed, failed or still running, does the operations
\* table (what listOperations and getStats read) hold a row of it.
C10_FailedCallWritesNothing ==
  /\ Failed => NothingWritten
  /\ (TheCall.pc \in {"begun", "validated", "userChecked", "inserted"})
       => NothingWritten
  /\ Succeeded => operations = TheCall.opsBefore \o <<TheCall.row>>

\* The transaction had inserted its row when the commit failed; the
\* caller got the store's error and the table is as before.
C10_Witness ==
  /\ Failed
  /\ TheCall.fault = "commit"
  /\ TheCall.result = Error("StoreError", "commit")
  /\ NothingWritten

C7_StoredAmountPositive ==
  \A i \in DOMAIN operations :
    FixedForm(operations[i].amount) /\ StoredCents(operations[i].amount) > 0

\* C8: every stored operation has type BUY or SELL and one of the 12
\* codes, in upper case, as its currency.
C8_StoredTypeAndCurrency ==
  \A i \in DOMAIN operations :
    /\ operations[i].type \in {BUY, SELL}
    /\ operations[i].currency \in
         {USD, EUR, GBP, JPY, CAD, AUD, CHF, CNY, BTC, ETH, ADA, SOL}

\* A request that gave the currency in lower case was stored under the
\* upper-case code.
C8_Witness ==
  /\ Succeeded
  /\ TheCall.data.currency = <<"u", "s", "d">>
  /\ operations[Len(operations)] = TheCall.row
  /\ TheCall.row.currency = USD
  /\ TheCall.row.type = SELL

(***************************************************************************)
(* The order of the checks and the owning user (SpecCall, Spec)            *)
(***************************************************************************)
\* C11 as claimed: the user check comes before the limit check, so a
\* request that passes structural validation and whose owning user is not
\* stored fails with the user-not-found BusinessRuleError, also when its
\* amount exceeds 10,000 (stated for the calls during which the store does
\* not fail).
C11_UserCheckedBeforeLimits ==
  ( /\ CallDone
    /\ TheCall.fault = "none"
    /\ StructuralChecks(TheCall.data).kind = "ok"
    /\ ~UserStored(TheCall.data.userId) )
  => TheCall.result = Error("BusinessRuleError", "userNotFound")

\* C11 as amended: the checks run in the order structural validation,
\* limit check (operation count, then the 10,000 cap), owning-user check,
\* normalization and insert, and the call reports the first step that
\* fails (stated for the calls during which the store does not fail).
C11_FirstFailingStepReported ==
  (CallDone /\ TheCall.fault = "none")
  => LET data  == TheCall.data
         owned == Cardinality(OwnedBy(TheCall.opsBefore, data.userId))
     IN  IF StructuralChecks(data).kind # "ok"
         THEN TheCall.result.kind = "ValidationError"
         ELSE IF owned >= DailyOperationLimit
         THEN TheCall.result = Error("BusinessRuleError", "dailyCount")
         ELSE IF GreaterThanNat(ValueOf(data.amount), MaxSingleAmount)
         THEN TheCall.result = Error("BusinessRuleError", "amountLimit")
         ELSE IF ~UserStored(data.userId)
         THEN TheCall.result = Error("BusinessRuleError", "userNotFound")
         ELSE Succeeded

\* A request of 10,001 USD for a user that is not stored was rejected by
\* the amount cap.
C11_Witness ==
  /\ Failed
  /\ TheCall.data.userId = "u9"
  /\ ~UserStored("u9")
  /\ TheCall.data.amount = <<"1", "0", "0", "0", "1">>
  /\ TheCall.data.currency = USD
  /\ TheCall.data.type = BUY
  /\ TheCall.result = Error("BusinessRuleError", "amountLimit")

Last == exchanges[1]

\* This step answered a request.
Answered == exchanges' # exchanges /\ exchanges' # <<>>

\* C13: the stores are append-only: no step changes or removes a stored
\* user or a stored operation, and a step that answers a login, a list or
\* a stats request, or in which authMiddleware refuses a request, leaves
\* both stores as they were.
C13_StoresAppendOnly ==
  [][ /\ users \subseteq users'
      /\ Len(operations') >= Len(operations)
      /\ Take(operations', Len(operations)) = operations
      /\ ( /\ Answered
           /\ \/ exchanges'[1].route \in {"login", "list", "stats"}
              \/ ~exchanges'[1].ran )
         => UNCHANGED <<users, operations>> ]_vars

\* With two users and an operation stored, the second user created after
\* the operation, the list was read.
C13_Witness ==
  /\ Cardinality(users) = 2
  /\ Len(operations) >= 1
  /\ TheCall.pc = "done"
  /\ Cardinality(TheCall.usersBefore) = 1
  /\ exchanges # <<>>
  /\ Last.route = "list"
  /\ Last.status = 200
  /\ Last.body.total >= 1

\* The request is for one of the three protected routes.
Protected(e) == e.route \in {"list", "stats", "create"}

\* The header is 'Bearer <token>' with a token of the server's key that
\* has not expired at that time and whose subject is a stored user.
Authorized(header, time) ==
  /\ header.scheme = "Bearer"
  /\ header.token.wellFormed
  /\ header.token.key = JWT_SECRET
  /\ time < header.token.payload.exp
  /\ \E u \in users : u.id = header.token.payload.sub

\* The message of the 401 a header that is not Authorized is answered.
Refusal(header, time) ==
  IF header.scheme # "Bearer" THEN "No token provided"
  ELSE IF \/ ~header.token.wellFormed
          \/ header.token.key # JWT_SECRET
          \/ time >= header.token.payload.exp
       THEN "Invalid token"
  ELSE "User not found"

\* C14: the handler of a protected route runs exactly for the requests
\* whose header is 'Bearer <token>' with a valid signature, not expired,
\* and a stored user as subject; every other request is answered 401 with
\* 'No token provided', 'Invalid token' or 'User not found', its response
\* holds no operation, and the step leaves the stored operations and the
\* createOperation calls as they were.
C14_ProtectedRoutesGated ==
  [][ (Answered /\ Protected(exchanges'[1]))
      => LET e == exchanges'[1]
         IN  /\ e.ran <=> Authorized(e.header, now)
             /\ ~e.ran
                => /\ e.status = 401
                   /\ e.body = [message |-> Refusal(e.header, now)]
                   /\ UNCHANGED <<users, operations, calls>> ]_vars

\* With an operation stored, a list request carrying an expired token
\* that login issued was refused.
C14_Witness ==
  /\ exchanges # <<>>
  /\ Last.route = "list"
  /\ ~Last.ran
  /\ Last.status = 401
  /\ Last.header.scheme = "Bearer"
  /\ Last.header.token \in tokens
  /\ Len(operations) >= 1

\* The credentials are those of a stored user.
ValidCredentials(email, password) ==
  \E u \in users : u.email = email /\ u.password = Hash(password)

\* C15: a login whose body passes loginSchema and whose e-mail is not
\* stored, or is stored with another password, is answered 401 with the
\* one message 'Invalid email or password' and nothing else: no token.
C15_BadCredentialsSameAnswer ==
  ( /\ exchanges # <<>>
    /\ Last.route = "login"
    /\ IsEmail(Last.request.email)
    /\ Last.request.password # ""
    /\ ~ValidCredentials(Last.request.email, Last.request.password) )
  => /\ Last.status = 401
     /\ Last.body = [message |-> "Invalid email or password"]

\* A login with the e-mail of a stored user and a wrong password was
\* refused.
C15_Witness ==
  /\ exchanges # <<>>
  /\ Last.route = "login"
  /\ Last.request.password = "wrong"
  /\ getUserByEmail(Last.request.email) # {}
  /\ Last.status = 401

\* The body holds no password hash: it has no password field, its user is
\* the summary, and its token carries only sub, role and exp.
NoPasswordHash(body) ==
  /\ "password" \notin DOMAIN body
  /\ "user" \in DOMAIN body => DOMAIN body.user = {"id", "email", "role"}
  /\ "token" \in DOMAIN body
       => DOMAIN body.token.payload = {"sub", "role", "exp"}

\* C16: a successful login returns a token signed with the server's key
\* whose subject is the id of the user of the credentials, whose role is
\* the stored role and whose expiry is one day after the login, and the
\* summary id, email, role of that user; and no response, of any route,
\* holds a password hash.
C16_LoginReturnsTokenAndSummary ==
  /\ ( /\ exchanges # <<>>
       /\ Last.route = "login"
       /\ Last.status = 200 )
     => \E u \in users :
          /\ u.email = Last.request.email
          /\ u.password = Hash(Last.request.password)
          /\ Last.body =
               [token |-> [payload |-> [sub  |-> u.id,
                                        role |-> u.role,
                                        exp  |-> Last.time + TicksPerDay],
                           key |-> JWT_SECRET,
                           wellFormed |-> TRUE],
                user  |-> [id |-> u.id, email |-> u.email, role |-> u.role]]
  /\ \A i \in DOMAIN exchanges : NoPasswordHash(exchanges[i].body)
  /\ CallDone => \A env \in Environments :
                   NoPasswordHash(CreateResponse(TheCall, env).body)

\* The second user created logged in at the second instant.
C16_Witness ==
  /\ exchanges # <<>>
  /\ Last.route = "login"
  /\ Last.status = 200
  /\ Last.time = 1
  /\ Last.body.user.id = "u2"
  /\ Last.body.token \in tokens

\* C17: a token that login issued is accepted by the protected routes at
\* every time before its expiry, one day after its issuance, and refused
\* with 401 from its expiry on, whatever logins, logouts and other
\* requests happened in between.
C17_ExpiryOnlyInvalidation ==
  /\ \A t \in tokens :
       /\ t.payload.exp - TicksPerDay \in 0..now
       /\ \E u \in users : u.id = t.payload.sub
  /\ ( /\ exchanges # <<>>
       /\ Protected(Last)
       /\ Last.header.scheme = "Bearer"
       /\ Last.header.token \in tokens )
     => IF Last.time < Last.header.token.payload.exp
        THEN Last.ran /\ Last.status # 401
        ELSE ~Last.ran /\ Last.status = 401

\* At the last instant before its expiry, a token was accepted after the
\* browser had logged in again and then logged out.
C17_Witness ==
  /\ exchanges # <<>>
  /\ Protected(Last)
  /\ Last.ran
  /\ Last.header.token \in tokens
  /\ Last.time = Last.header.token.payload.exp - 1
  /\ Cardinality(tokens) >= 2
  /\ client = {}

(***************************************************************************)
(* Properties of the reads of two users (SpecOwn)                          *)
(***************************************************************************)
\* The rows of the user among the operations stored when the exchange was
\* answered.
OwnRows(e) ==
  LET Mine(row) == row.userId = e.header.token.payload.sub
  IN  SelectSeq(Take(operations, e.stored), Mine)

\* The parameters the list route hands to getOperations for the exchange.
ParamsOf(e) ==
  [userId   |-> e.header.token.payload.sub,
   type     |-> e.request.type,
   currency |-> e.request.currency,
   search   |-> e.request.search,
   page     |-> parseInt(e.request.page).value,
   limit    |-> parseInt(e.request.limit).value]

\* C18: every operation GET /api/operations returns belongs to the user
\* of the token, for every combination of filters, and the stats count
\* that user's operations only; what either route answers is what it
\* would answer if the table held that user's operations alone.
C18_OnlyOwnOperations ==
  (exchanges # <<>> /\ Last.status = 200)
  => /\ Last.route = "list"
        => /\ \A i \in DOMAIN Last.body.operations :
                Last.body.operations[i].userId = Last.header.token.payload.sub
           /\ \E result \in getOperations(ParamsOf(Last), OwnRows(Last)) :
                /\ ~result.error
                /\ Last.body.operations = result.operations
                /\ Last.body.total = result.total
     /\ Last.route = "stats"
        => Last.body = getOperationStats("", OwnRows(Last))

\* With operations of both users stored, the list of one of them was
\* answered with its own operation.
C18_Witness ==
  /\ exchanges # <<>>
  /\ Last.route = "list"
  /\ Last.status = 200
  /\ Last.body.total = 1
  /\ Last.stored = 2
  /\ Len(Last.body.operations) = 1
  /\ \E i \in 1..Last.stored :
       operations[i].userId # Last.header.token.payload.sub

(***************************************************************************)
(* Properties of getOperations (SpecList)                                  *)
(***************************************************************************)
\* term occurs in text, without regard to the case of letters.
OccursIn(term, text) ==
  \E i \in 0..(Len(text) - Len(term)) :
    SubSeq(toUpperCase(text), i + 1, i + Len(term)) = toUpperCase(term)

\* The row satisfies every filter that is given: the user, the type and
\* the currency exactly (the sentinels all-types and all-currencies stand
\* for no filter), and the search term as a substring of the currency,
\* the type or the amount text.
SatisfiesFilters(params, row) ==
  /\ params.userId # "" => row.userId = params.userId
  /\ (params.type # <<>> /\ params.type # AllTypes)
       => row.type = params.type
  /\ (params.currency # <<>> /\ params.currency # AllCurrencies)
       => row.currency = params.currency
  /\ params.search # <<>>
       => \/ OccursIn(params.search, row.currency)
          \/ OccursIn(params.search, row.type)
          \/ OccursIn(params.search, row.amount)

\* C19: the filters of listOperations are conjunctive: every record
\* returned satisfies every filter given (type and currency exactly, the
\* search term as a case-insensitive substring of currency, type or amount
\* text), and total is the number of stored records that satisfy them all.
C19_FiltersConjunctive ==
  ( /\ exchanges # <<>>
    /\ Last.route = "getOperations"
    /\ Last.status = 200 )
  => /\ \A i \in DOMAIN Last.body.operations :
          SatisfiesFilters(Last.request, Last.body.operations[i])
     /\ Last.body.total =
          Cardinality({i \in DOMAIN operations :
                         SatisfiesFilters(Last.request, operations[i])})

\* The rows of the table that the where clause of the request selects.
Matching(params) ==
  {i \in DOMAIN operations : WhereClause(params, operations[i])}

\* C20: with no write in between, listOperations(page, limit) over the N
\* matching records returns total = N and the records at offsets
\* (page - 1) * limit onward, at most limit of them, of the newest-first
\* sequence of the matching records, so that different pages fetched one
\* after the other are windows of one and the same sequence and return
\* every matching record exactly once.
C20_PagesOfOneSequence ==
  ( /\ exchanges # <<>>
    /\ Last.route = "getOperations"
    /\ Last.status = 200
    /\ \A j, k \in DOMAIN exchanges :
         j # k => exchanges[j].request.page # exchanges[k].request.page )
  => /\ Last.body.total = Cardinality(Matching(Last.request))
     /\ \E sequence \in OrderByCreatedAtDesc(operations, Matching(Last.request)) :
          \A k \in DOMAIN exchanges :
            exchanges[k].body.operations =
              LimitOffset(sequence, exchanges[k].request.limit,
                          (exchanges[k].request.page - 1)
                            * exchanges[k].request.limit)

\* C21: the items of every getOperations result are in non-increasing
\* order of created_at; and when one of a user's operations has a
\* created_at later than all the others of that user, it is the first item
\* of page 1 of the user's unfiltered list.
C21_NewestFirst ==
  ( /\ exchanges # <<>>
    /\ Last.route = "getOperations"
    /\ Last.status = 200 )
  => LET items == Last.body.operations
         mine  == Matching(Last.request)
     IN  /\ \A i, j \in DOMAIN items :
              i < j => items[i].createdAt >= items[j].createdAt
         /\ ( /\ Last.request.userId # ""
              /\ Last.request.type = <<>>
              /\ Last.request.currency = <<>>
              /\ Last.request.search = <<>>
              /\ Last.request.page = 1 )
            => \A n \in mine :
                 (\A o \in mine \ {n} :
                    operations[o].createdAt < operations[n].createdAt)
                 => items # <<>> /\ items[1] = operations[n]

\* Page 1 of the unfiltered list of a user with four operations, among
\* those of another user, began with the user's latest one.
C21_Witness ==
  /\ exchanges # <<>>
  /\ Last.route = "getOperations"
  /\ Last.status = 200
  /\ Last.request.userId = "u1"
  /\ Last.request.type = <<>>
  /\ Last.request.currency = <<>>
  /\ Last.request.search = <<>>
  /\ Last.body.total = 4
  /\ Len(operations) = 5
  /\ Last.body.operations[1] = operations[5]

(***************************************************************************)
(* Properties of the stats, of the responses of POST /api/operations and   *)
(* of the calendar day                                                     *)
(***************************************************************************)
\* C22: in every state setup and createOperation can reach, what
\* getOperationStats returns when it runs on the stored operations has
\* total = buys + sells, for each user and for the call without a user.
C22_StatsAddUp ==
  \A userId \in {""} \cup RequestUserIds :
    LET stats == getOperationStats(userId, operations)
    IN  stats.total = stats.buys + stats.sells

\* A BUY of one user and a SELL of another are stored.
C22_Witness ==
  /\ Len(operations) = 2
  /\ getOperationStats("", operations) = [total |-> 2, buys |-> 1, sells |-> 1]
  /\ getOperationStats("u1", operations).total = 1
  /\ getOperationStats("u2", operations).total = 1

\* The status the claim gives to the outcome of a call.
StatusOf(result) ==
  CASE result.kind = "ok" -> 201
    [] result.kind = "ValidationError" -> 400
    [] result.kind = "BusinessRuleError" -> 422
    [] OTHER -> 500

\* C23: an authenticated POST /api/operations is answered 400 when the
\* body fails the schema, and otherwise by the outcome of createOperation:
\* 201 with the created operation, 400 for a ValidationError, 422 for a
\* BusinessRuleError, 500 for a TransactionError, with the details
\* 'Internal server error' unless the environment is development; and the
\* table gains a record, the one returned, exactly when the answer is 201.
C23_OneStatusPerOutcome ==
  (exchanges # <<>> /\ Last.route = "create" /\ Last.ran)
  => IF ~insertOperationSchema(Last.request)
     THEN /\ Last.status = 400
          /\ Last.body = [message |-> "Validation error"]
          /\ TheCall.pc = "idle"
          /\ Len(operations) = Last.stored
     ELSE CallDone
          => \A env \in Environments :
               LET response == CreateResponse(TheCall, env)
               IN  /\ response.status = StatusOf(TheCall.result)
                   /\ response.status = 201
                        => /\ response.body = operations[Len(operations)]
                           /\ operations
                                = TheCall.opsBefore \o <<response.body>>
                   /\ response.status # 201
                        => operations = TheCall.opsBefore
                   /\ ( /\ TheCall.result.kind = "TransactionError"
                        /\ env # "development" )
                      => response.body.details = "Internal server error"

\* The count query failed during the call of a valid body, on a table
\* that holds operations.
C23_Witness ==
  /\ exchanges # <<>>
  /\ Last.route = "create"
  /\ Last.ran
  /\ CallDone
  /\ TheCall.result.kind = "TransactionError"
  /\ CreateResponse(TheCall, "production").status = 500
  /\ Len(operations) >= 1

\* The operations of the user created on the day the call was made.
OwnedToday ==
  {i \in DOMAIN TheCall.opsBefore :
     /\ TheCall.opsBefore[i].userId = TheCall.data.userId
     /\ TheCall.opsBefore[i].createdAt >= StartOfDay(TheCall.txStart)}

\* C24: the count limit is per user per calendar day: a request that
\* passes structural validation, whose user is stored, whose amount is
\* within the cap and whose user has created fewer than 10 operations on
\* the day of the call succeeds, however many the user created on earlier
\* days (stated for the calls during which the store does not fail).
C24_EarlierDaysDoNotCount ==
  ( /\ CallDone
    /\ TheCall.fault = "none"
    /\ StructuralChecks(TheCall.data).kind = "ok"
    /\ UserStored(TheCall.data.userId)
    /\ ~GreaterThanNat(ValueOf(TheCall.data.amount), MaxSingleAmount)
    /\ Cardinality(OwnedToday) < DailyOperationLimit )
  => Succeeded

(***************************************************************************)
(* Properties of setup                                                     *)
(***************************************************************************)
\* C25: once the setup status reports needsSetup = false, every setup
\* request is answered 400 and creates no user, whatever its e-mail.
C25_SetupOnlyOnce ==
  [][ ( /\ ~SetupStatus.needsSetup
        /\ Answered
        /\ exchanges'[1].route = "setup" )
      => /\ exchanges'[1].status = 400
         /\ users' = users ]_vars

(***************************************************************************)
(* Properties of overlapping requests and of store failures (SpecRace,     *)
(* SpecCall, SpecRead)                                                     *)
(***************************************************************************)
\* C26: the count check is not serialised between calls: with two
\* handlers running createOperation for the same user at the same time,
\* both can read a count below 10 before either commits and both insert,
\* so the user comes to own more than 10 operations (C26_Witness).  The
\* excess is at most one operation per handler running beside the first,
\* and a call that began when the user owned 10 or more is refused.
C26_OverLimitByOverlapOnly ==
  /\ Cardinality(OwnedBy(operations, "u1"))
       <= DailyOperationLimit + Cardinality(Procs) - 1
  /\ \A p \in Procs :
       Cardinality(OwnedBy(calls[p].opsBefore, "u1")) >= DailyOperationLimit
       => /\ calls[p].pc \in {"idle", "begun", "done"}
          /\ calls[p].pc = "done"
               => calls[p].result = Error("BusinessRuleError", "dailyCount")

\* Both calls began when the user owned 9 operations, both succeeded, and
\* the user owns 11.
C26_Witness ==
  /\ Cardinality(OwnedBy(operations, "u1")) = DailyOperationLimit + 1
  /\ \A p \in Procs :
       /\ calls[p].pc = "done"
       /\ calls[p].result.kind = "ok"
       /\ Cardinality(OwnedBy(calls[p].opsBefore, "u1"))
            = DailyOperationLimit - 1

\* C27: a createOperation call ends in success, in one of the two domain
\* errors or in a TransactionError, whichever statement of the store
\* failed during it: opening the transaction, the count query, the user
\* query, the insert or the commit; never in the store's own error.
C27_StoreFailuresAreWrapped ==
  CallDone
  => TheCall.result.kind
       \in {"ok", "ValidationError", "BusinessRuleError", "TransactionError"}

\* The number of items of a page of n matching rows.
ItemsOfPage(params, n) ==
  LET rest == n - (params.page - 1) * params.limit
  IN  IF rest <= 0 THEN 0 ELSE IF rest < params.limit THEN rest
      ELSE params.limit

\* C28: the page and the total of one getOperations response come from
\* two queries, each answered on the rows stored when it ran: one of them
\* on the rows stored when the first query was answered, the other on the
\* rows stored when the response was made.  When no operation was
\* committed between the two, the number of items is the one total
\* implies; when one was, the response can hold a page that is not full
\* and a total different from its number of items (C28_Witness).
C28_PageAndTotalReadSeparately ==
  [][ ( /\ exchanges # <<>>
        /\ exchanges[1].route = "getOperations"
        /\ exchanges[1].status = 0
        /\ exchanges' # <<>>
        /\ exchanges'[1].status = 200 )
      => LET first    == exchanges[1]
             response == exchanges'[1].body
             params   == first.request
             before   == Take(operations, first.stored)
         IN  /\ \/ /\ response.operations \in PageQuery(params, before)
                   /\ response.total = CountQuery(params, operations)
                \/ /\ response.operations \in PageQuery(params, operations)
                   /\ response.total = CountQuery(params, before)
             /\ Len(operations) = first.stored
                  => Len(response.operations)
                       = ItemsOfPage(params, response.total) ]_vars

\* An operation of the user was committed between the two queries: the
\* first page, of limit 10, holds fewer items than total says.
C28_Witness ==
  /\ exchanges # <<>>
  /\ Last.route = "getOperations"
  /\ Last.status = 200
  /\ Last.request.page = 1
  /\ Last.request.limit = 10
  /\ Len(Last.body.operations) < Last.body.total
  /\ Last.body.total < Last.request.limit
  /\ Last.stored < Len(operations)

(***************************************************************************)
(* Properties of the paging parameters (SpecApi)                           *)
(***************************************************************************)
\* The text is an integer numeral between lo and hi.
IntegerBetween(text, lo, hi) ==
  /\ text # <<>>
  /\ \A i \in DOMAIN text : IsDigitChar(text[i])
  /\ parseInt(text).value >= lo
  /\ parseInt(text).value <= hi

\* C29: GET /api/operations, once past authMiddleware, queries the store
\* only when page is an integer >= 1 and limit an integer in [1, 100]
\* (absent, they are 1 and 10); every other request, one with a
\* non-numeric page or limit included, is answered 400 'Invalid pagination
\* parameters'; and no response holds more than 100 operations.
C29_PagingValidated ==
  (exchanges # <<>> /\ Last.route = "list" /\ Last.ran)
  => /\ ( \/ ~IntegerBetween(Last.request.page, 1, 10000)
          \/ ~IntegerBetween(Last.request.limit, 1, 100) )
        => /\ Last.status = 400
           /\ Last.body = [message |-> "Invalid pagination parameters"]
     /\ Last.status = 200 => Len(Last.body.operations) <= 100

(***************************************************************************)
(* Properties of interleaved setup requests (SpecSetup)                    *)
(***************************************************************************)
\* C30: no two stored users have the same e-mail, also when the
\* statements of two setup requests are interleaved; and a setup request
\* that carries both fields either creates its user (201) or is answered
\* 400 'User with this email already exists'.
C30_DuplicateSetupRefused ==
  /\ \A u, v \in users : u.email = v.email => u = v
  /\ \A p \in Procs :
       ( /\ setups[p].pc = "done"
         /\ setups[p].email # ""
         /\ setups[p].password # "" )
       => \/ setups[p].response.status = 201
          \/ setups[p].response
               = Message(400, "User with this email already exists")

====
